---- MODULE Spec2Model ----
(***************************************************************************)
(* Model of the segmentation-session and edit-compositing engine           *)
(* (py/app.py) and of the batch worker (py/worker/consumer.py).            *)
(*                                                                         *)
(* Pixel arithmetic.  The code works on float32 values in [0,1]            *)
(* (img / 255.0) and re-quantizes with (x * 255).astype(uint8), which      *)
(* truncates.  The model keeps these values in fixed point: a channel      *)
(* value x in [0,1] is the integer x * One with One = 510, so that the     *)
(* mid-gray 0.5 of the contrast stage is the integer Half = 255 and an     *)
(* 8-bit value v is 2 * v.  Edit parameters are integers: brightness in    *)
(* units of 1/510, contrast, gamma, saturation, opacity in percent, hue    *)
(* in degrees, sharpen as a whole amount, noise std in units of 1/510.     *)
(***************************************************************************)
EXTENDS Integers, Sequences, FiniteSets, TLC

\* ------------------------------------------------------------------ bounds
\* Number of pixels of an image (images are flattened row-major).
NPix == 2

Pixels == 1..NPix

\* Sessions created in one run of the session store.
MaxSessions == 2

\* Components saved per session (caps next_component_id).
MaxComponents == 2

\* Files of one streaming batch request.
MaxFiles == 3

\* Images of the dataset of one worker job.
MaxImages == 2

\* Points a session accumulates.
MaxPoints == 2

\* Largest number of templates saved in a dataset.
MaxTemplates == 2

One == 2 * 255
Half == 255

Max2(a, b) == IF a >= b THEN a ELSE b
Min2(a, b) == IF a <= b THEN a ELSE b

\* np.clip(x, 0, 1)
Clip(x) == Max2(0, Min2(One, x))

\* The pixel values images are drawn from: mid-gray, a red (hue 0) and a
\* cyan (hue 180).
Palette == { <<128, 128, 128>>, <<200, 100, 100>>, <<100, 200, 200>> }

Images == [Pixels -> Palette]

\* Boolean masks over the pixels of an image.
Masks == [Pixels -> BOOLEAN]

MaskCount(m) == Cardinality({i \in DOMAIN m : m[i]})

\* An absent dictionary key, a key holding None, a key holding a number.
Absent == [tag |-> "absent"]
None == [tag |-> "none"]
Num(n) == [tag |-> "num", val |-> n]

\* ------------------------------------------------------- colour conversion
\* img[..., :3].astype(np.float32) / 255.0
ToFloat(img) == [i \in DOMAIN img |-> [c \in 1..3 |-> 2 * img[i][c]]]

\* (result * 255).astype(np.uint8): truncation of a value in [0,1].
Quantize(x) == x \div 2

\* np.allclose(r, g) and np.allclose(g, b): channel values are multiples of
\* 1/255, so two channels are close only when they are equal.
GrayInput(rgb) == \A i \in DOMAIN rgb : rgb[i][1] = rgb[i][2] /\ rgb[i][2] = rgb[i][3]

PixMax(p) == Max2(p[1], Max2(p[2], p[3]))
PixMin(p) == Min2(p[1], Min2(p[2], p[3]))

\* Saturation is kept in thousandths, hue in degrees.
SatOne == 2 * 500

\* skimage.color.rgb2hsv of one pixel: v = max, s = delta / v, h from the
\* channel holding the maximum (red, then green, then blue overriding).
HueOf(p) ==
    LET v == PixMax(p)
        d == v - PixMin(p)
        hr == (60 * (p[2] - p[3])) \div d
        hg == 120 + (60 * (p[3] - p[1])) \div d
        hb == 240 + (60 * (p[1] - p[2])) \div d
    IN  IF d = 0 THEN 0
        ELSE IF p[3] = v THEN hb % 360
        ELSE IF p[2] = v THEN hg % 360
        ELSE hr % 360

Rgb2HsvPix(p) ==
    LET v == PixMax(p)
        d == v - PixMin(p)
    IN  [h |-> HueOf(p),
         s |-> IF d = 0 THEN 0 ELSE (SatOne * d) \div v,
         v |-> v]

rgb2hsv(rgb) == [i \in DOMAIN rgb |-> Rgb2HsvPix(rgb[i])]

\* skimage.color.hsv2rgb of one pixel.
Hsv2RgbPix(q) ==
    LET hi == (q.h \div 60) % 6
        f == q.h % 60
        p == (q.v * (SatOne - q.s)) \div SatOne
        qq == (q.v * (60 * SatOne - f * q.s)) \div (60 * SatOne)
        t == (q.v * (60 * SatOne - (60 - f) * q.s)) \div (60 * SatOne)
    IN  CASE hi = 0 -> <<q.v, t, p>>
          [] hi = 1 -> <<qq, q.v, p>>
          [] hi = 2 -> <<p, q.v, t>>
          [] hi = 3 -> <<p, qq, q.v>>
          [] hi = 4 -> <<t, p, q.v>>
          [] hi = 5 -> <<q.v, p, qq>>

hsv2rgb(hsv) == [i \in DOMAIN hsv |-> Hsv2RgbPix(hsv[i])]

\* ------------------------------------------------------------ edit stages
\* region = np.clip(region + brightness, 0, 1), when brightness != 0
BrightnessStage(x, b) == IF b /= 0 THEN Clip(x + b) ELSE x

\* region = np.clip((region - 0.5) * (1 + contrast) + 0.5, 0, 1), when contrast != 0
ContrastStage(x, c) ==
    IF c /= 0 THEN Clip(((x - Half) * (100 + c)) \div 100 + Half) ELSE x

\* The gamma deltas of the model: 0 (off) and -50 percent, for which the
\* exponent 1 / max(1e-3, 1 + gamma) is 2.
GammaValues == {0, 0 - 50}

\* region = np.clip(region ** (1.0 / gamma_val), 0, 1), when gamma != 0
GammaStage(x, g) ==
    CASE g = 0 -> x
      [] g = 0 - 50 -> Clip((x * x) \div One)

\* Brightness, contrast, gamma of one channel value, in the code's order.
ToneStages(x, e) ==
    GammaStage(ContrastStage(BrightnessStage(x, e.brightness), e.contrast), e.gamma)

\* The indices of the true pixels of a mask, ascending: the row order of
\* result[mask].
RECURSIVE MaskIdxFrom(_, _)
MaskIdxFrom(m, i) ==
    IF i > Len(m) THEN <<>>
    ELSE (IF m[i] THEN <<i>> ELSE <<>>) \o MaskIdxFrom(m, i + 1)

MaskIdx(m) == MaskIdxFrom(m, 1)

\* Position of pixel i in the rows of result[mask].
RowOf(idx, i) == CHOOSE k \in 1..Len(idx) : idx[k] = i

\* Weights (in hundredths) of the sigma = 1 Gaussian kernel at distance
\* 0, 1, 2, 3 (0.399, 0.242, 0.054, 0.004).
KernelW == <<40, 24, 5, 1>>

\* skimage gaussian(region, sigma=1, channel_axis=-1): region is the
\* (count, 3) array result[mask], so the blur runs along its rows, with the
\* border rows repeated (mode 'nearest').
Blurred(region, k, c) ==
    LET n == Len(region)
        At(j) == region[Max2(1, Min2(n, j))][c]
    IN  (KernelW[1] * At(k)
         + KernelW[2] * (At(k - 1) + At(k + 1))
         + KernelW[3] * (At(k - 2) + At(k + 2))
         + KernelW[4] * (At(k - 3) + At(k + 3))) \div 100

\* _unsharp_mask(region, amount, sigma=1.0)
_unsharp_mask(region, amount) ==
    IF amount <= 0 THEN region
    ELSE [k \in 1..Len(region) |->
            [c \in 1..3 |-> Clip(region[k][c] + amount * (region[k][c] - Blurred(region, k, c)))]]

\* seed_val = int((int(mask.sum()) * (cid_int + 13)) % (2**32 - 1)); the
\* products of the model stay far below the modulus 2**32 - 1.
SeedVal(count, cid) == count * (cid + 13)

\* rng.normal(0, noise_std, size=(count, 3)) of np.random.default_rng(seed):
\* a field fixed by the seed, the std and the shape.  The generator is
\* outside the repository; the model uses a fixed table of deviates in
\* {-2..2} times the std.
NoiseField(seed, std, k, c) == (((seed * 7 + k * 3 + c) % 5) - 2) * std

\* ------------------------------------------------------------- apply_edits
\* edit_map = {e.get('id'): e for e in edits if 'id' in e}: one entry per id,
\* in the order the ids first occur, holding the last edit of that id.
LastWithId(edits, id) ==
    edits[CHOOSE j \in 1..Len(edits) :
            /\ edits[j].id = id
            /\ \A k \in (j + 1)..Len(edits) : edits[k].id /= id]

RECURSIVE EditMapFrom(_, _)
EditMapFrom(edits, i) ==
    IF i > Len(edits) THEN <<>>
    ELSE (IF \A j \in 1..(i - 1) : edits[j].id /= edits[i].id
          THEN <<LastWithId(edits, edits[i].id)>> ELSE <<>>)
         \o EditMapFrom(edits, i + 1)

EditMap(edits) == EditMapFrom(edits, 1)

CompMax(comp_mask) ==
    IF \E i \in DOMAIN comp_mask : comp_mask[i] > 0 THEN 1 ELSE 0

\* mask = (comp_mask == cid) if comp_mask is not None and comp_mask.max() > 0
\*        else object_mask
RegionMask(object_mask, comp_mask, cid) ==
    IF CompMax(comp_mask) > 0
    THEN [i \in DOMAIN comp_mask |-> comp_mask[i] = cid]
    ELSE object_mask

\* float(edit['hue']) and float(edit['saturation']) raise TypeError on None;
\* they are evaluated only for a non-grayscale input.
HueSatRaises(edit, gray) ==
    /\ ~gray
    /\ \/ edit.hue.tag = "none"
       \/ edit.saturation.tag = "none"

\* hregion = (hregion + hue / 360) % 1.0; sregion = clip(sregion * (1 + sat), 0, 1)
HueSatPix(q, edit) ==
    [h |-> IF edit.hue.tag = "num" THEN (q.h + edit.hue.val) % 360 ELSE q.h,
     s |-> IF edit.saturation.tag = "num"
           THEN Max2(0, Min2(SatOne, (q.s * (100 + edit.saturation.val)) \div 100))
           ELSE q.s,
     v |-> q.v]

\* The sharpen step on result: region = result[mask]; result[mask] = unsharp.
SharpenStep(result, mask, amt) ==
    IF amt = 0 THEN result
    ELSE LET idx == MaskIdx(mask)
             region == [k \in 1..Len(idx) |-> result[idx[k]]]
             sharp == _unsharp_mask(region, amt)
         IN  [i \in DOMAIN result |->
                IF mask[i] THEN sharp[RowOf(idx, i)] ELSE result[i]]

\* A draw seeded from the positions of the region's pixels instead of
\* their number.
NoiseDrawByPosition(mask, std, cid) ==
    LET count == MaskCount(mask)
        seed == SeedVal(count + MaskIdx(mask)[1] - 1, cid)
    IN  [seed |-> seed, std |-> std,
         n |-> [k \in 1..count |-> [c \in 1..3 |-> NoiseField(seed, std, k, c)]]]

\* seed_val from mask.sum() and cid; rng = np.random.default_rng(seed_val);
\* n = rng.normal(0, noise_std, size=(mask.sum(), 3)): the seed and the
\* field drawn for the region mask of component cid.
NoiseDraw(mask, std, cid) ==
    LET count == MaskCount(mask)
        seed == SeedVal(count, cid)
    IN  [seed |-> seed, std |-> std,
         n |-> [k \in 1..count |-> [c \in 1..3 |-> NoiseField(seed, std, k, c)]]]

\* The noise step on result: region = clip(result[mask] + n, 0, 1).
NoiseStep(result, mask, std, cid) ==
    IF std <= 0 THEN result
    ELSE LET idx == MaskIdx(mask)
             n == NoiseDraw(mask, std, cid).n
         IN  [i \in DOMAIN result |->
                IF mask[i]
                THEN [c \in 1..3 |-> Clip(result[i][c] + n[RowOf(idx, i)][c])]
                ELSE result[i]]

\* One iteration of "for cid, edit in edit_map.items()" on the loop state
\* st = [result, hsv, raised, draws], draws being the noise draws made.
EditStep(st, edit, gray, object_mask, comp_mask) ==
    LET mask == RegionMask(object_mask, comp_mask, edit.id)
        toned == [i \in DOMAIN st.result |->
                    IF mask[i]
                    THEN [c \in 1..3 |-> ToneStages(st.result[i][c], edit)]
                    ELSE st.result[i]]
        hsv2 == IF gray THEN st.hsv
                ELSE [i \in DOMAIN st.hsv |->
                        IF mask[i] THEN HueSatPix(st.hsv[i], edit) ELSE st.hsv[i]]
        sharp == SharpenStep(toned, mask, edit.sharpen)
        noisy == NoiseStep(sharp, mask, edit.noise, edit.id)
    IN  IF st.raised \/ MaskCount(mask) = 0 THEN st
        ELSE IF HueSatRaises(edit, gray) THEN [st EXCEPT !.raised = TRUE]
        ELSE [result |-> noisy, hsv |-> hsv2, raised |-> FALSE,
              draws |-> IF edit.noise > 0
                        THEN Append(st.draws, NoiseDraw(mask, edit.noise, edit.id))
                        ELSE st.draws]

RECURSIVE EditLoop(_, _, _, _, _, _)
EditLoop(st, emap, k, gray, object_mask, comp_mask) ==
    IF k > Len(emap) THEN st
    ELSE EditLoop(EditStep(st, emap[k], gray, object_mask, comp_mask),
                  emap, k + 1, gray, object_mask, comp_mask)

Ok(img) == [ok |-> TRUE, img |-> img]
Raised(e) == [ok |-> FALSE, err |-> e]

\* A fresh output array instead of a copy of the input.
MergeOutputZeros(img, object_mask, result) ==
    [i \in DOMAIN img |->
        IF object_mask[i]
        THEN [c \in 1..3 |-> Quantize(result[i][c])]
        ELSE <<0, 0, 0>>]

\* out = img.copy().astype(np.uint8)
\* out[object_mask] = (result[object_mask] * 255).astype(np.uint8)
MergeOutput(img, object_mask, result) ==
    [i \in DOMAIN img |->
        IF object_mask[i]
        THEN [c \in 1..3 |-> Quantize(result[i][c])]
        ELSE img[i]]

\* The loop of apply_edits over edit_map on the float copy of img: its
\* final state.
EditsRun(img, object_mask, comp_mask, edits) ==
    LET rgb == ToFloat(img)
        gray_input == GrayInput(rgb)
        st0 == [result |-> rgb,
                hsv |-> IF gray_input THEN <<>> ELSE rgb2hsv(rgb),
                raised |-> FALSE, draws |-> <<>>]
    IN  EditLoop(st0, EditMap(edits), 1, gray_input, object_mask, comp_mask)

\* apply_edits(img, object_mask, comp_mask, edits): the edited image, or the
\* exception it raises.
apply_edits(img, object_mask, comp_mask, edits) ==
    IF Len(edits) = 0 THEN Ok(img)
    ELSE
    LET rgb == ToFloat(img)
        gray_input == GrayInput(rgb)
        st == EditsRun(img, object_mask, comp_mask, edits)
        result == IF gray_input THEN st.result ELSE hsv2rgb(st.hsv)
    IN  IF st.raised THEN Raised("TypeError")
        ELSE Ok(MergeOutput(img, object_mask, result))

\* The opacity blend that follows apply_edits in sam_apply, the batch
\* endpoints and the template application: opacity is None or a percentage;
\* ov = max(0, min(1, float(opacity))); when ov < 1 the masked pixels become
\* (ov * converted + (1 - ov) * prev).astype(uint8).
OpacityBlend(converted, prev, mask, opacity) ==
    IF opacity.tag /= "num" THEN converted
    ELSE LET ov == Max2(0, Min2(100, opacity.val))
         IN  IF ov < 100
             THEN [i \in DOMAIN converted |->
                     IF mask[i]
                     THEN [c \in 1..3 |->
                             (ov * converted[i][c] + (100 - ov) * prev[i][c]) \div 100]
                     ELSE converted[i]]
             ELSE converted

\* comp_mask = np.zeros(mask.shape, dtype=np.uint8); comp_mask[mask] = 1
CompMaskOf(mask) == [i \in DOMAIN mask |-> IF mask[i] THEN 1 ELSE 0]

\* ---------------------------------------------------------- edit parameters
ToneSet ==
    { <<0, 0, 0>>, <<102, 0, 0>>, <<0, 100, 0>>, <<0, 0, 0 - 50>>, <<102, 100, 0 - 50>> }

ColourSet ==
    { <<Absent, Absent>>, <<None, None>>, <<Num(60), Absent>>,
      <<Absent, Num(0 - 50)>>, <<Num(60), Num(0 - 50)>> }

DetailSet == { <<0, 0>>, <<1, 0>>, <<0, 4>>, <<1, 4>> }

MkEdit(id, t, c, d) ==
    [id |-> id, brightness |-> t[1], contrast |-> t[2], gamma |-> t[3],
     hue |-> c[1], saturation |-> c[2], sharpen |-> d[1], noise |-> d[2]]

\* The edit dictionaries a call of apply_edits is given.
EditParams == { MkEdit(1, t, c, d) : t \in ToneSet, c \in ColourSet, d \in DetailSet }

\* Two-region edit lists (ids 1 and 2).
PairEdits ==
    { <<MkEdit(1, t1, <<Absent, Absent>>, <<0, 0>>), MkEdit(2, t2, c2, <<0, 0>>)>> :
        t1 \in {<<102, 0, 0>>, <<0, 100, 0>>},
        t2 \in {<<0, 0, 0>>, <<102, 0, 0>>},
        c2 \in {<<Absent, Absent>>, <<Num(60), Absent>>} }

EditLists == {<<>>} \cup { <<e>> : e \in EditParams } \cup PairEdits

\* comp_mask labellings of an object mask: one region (label 1), or the
\* first masked pixel as region 1 and the others as region 2.
CompMasks(obj) ==
    { CompMaskOf(obj),
      [i \in DOMAIN obj |->
         IF ~obj[i] THEN 0
         ELSE IF \A j \in 1..(i - 1) : ~obj[j] THEN 1 ELSE 2] }

Opacities == { None, Num(50), Num(100) }

\* ------------------------------------------------------------ sam_apply
\* The image is one row of NPix pixels.
ImgW == NPix
Xof(i, w) == (i - 1) % w
Yof(i, w) == (i - 1) \div w

SetMin(S) == CHOOSE x \in S : \A y \in S : x <= y
SetMax(S) == CHOOSE x \in S : \A y \in S : x >= y

\* A bounding box whose right and bottom edges lie one past the last true
\* pixel (the exclusive convention).
BBoxExclusive(mask) ==
    LET on == {i \in DOMAIN mask : mask[i]}
        w == IF Len(mask) = NPix THEN ImgW ELSE Len(mask)
    IN  IF on = {} THEN <<0, 0, 0, 0>>
        ELSE <<SetMin({Xof(i, w) : i \in on}), SetMin({Yof(i, w) : i \in on}),
               SetMax({Xof(i, w) : i \in on}) + 1, SetMax({Yof(i, w) : i \in on}) + 1>>

\* bbox = [xs.min(), ys.min(), xs.max(), ys.max()] if xs.size else [0,0,0,0]
BBox(mask) ==
    LET on == {i \in DOMAIN mask : mask[i]}
        w == IF Len(mask) = NPix THEN ImgW ELSE Len(mask)
    IN  IF on = {} THEN <<0, 0, 0, 0>>
        ELSE <<SetMin({Xof(i, w) : i \in on}), SetMin({Yof(i, w) : i \in on}),
               SetMax({Xof(i, w) : i \in on}), SetMax({Yof(i, w) : i \in on})>>

\* The component dictionary _add_component builds; name is the given name
\* or 'component_<id>'.
MkComponent(comp_id, mask, score, name) ==
    [id |-> comp_id, mask |-> mask, bbox |-> BBox(mask), area |-> MaskCount(mask),
     score |-> score,
     name |-> IF name = "" THEN [base |-> "component_", n |-> comp_id]
              ELSE [base |-> name, n |-> 0]]

\* The session dictionary _session_init stores.
NewSession(image) ==
    [image |-> image, components |-> <<>>, next_component_id |-> 1, points |-> <<>>]

\* An entry of the edits list of a /sam/apply request; absent numeric keys
\* read as 0, absent hue, saturation and opacity read as None.
MkReqEdit(cid, t, c, op) ==
    [component_id |-> cid, brightness |-> t[1], contrast |-> t[2], gamma |-> t[3],
     hue |-> c[1], saturation |-> c[2], sharpen |-> 0, noise |-> 0, opacity |-> op]

\* e.get('hue'), e.get('saturation'): None for an absent key.
GetOrNone(x) == IF x.tag = "absent" THEN None ELSE x

\* The single-edit list the callers hand to apply_edits: id 1, and the keys
\* hue and saturation always present.
Payload(e) ==
    <<[id |-> 1, brightness |-> e.brightness, contrast |-> e.contrast,
       gamma |-> e.gamma, hue |-> GetOrNone(e.hue),
       saturation |-> GetOrNone(e.saturation),
       sharpen |-> e.sharpen, noise |-> e.noise]>>

\* An apply_edits that always hands back the array it was given, written
\* in place.
ReturnsInputAlways(edits) == TRUE

\* Whether the array apply_edits returns is the array it was given: "if not
\* edits: return img"; otherwise it returns out = img.copy().
ReturnsInput(edits) == Len(edits) = 0

\* apply_edits on one region followed by the opacity blend with the image
\* before the edit; the exception of apply_edits propagates.
EditRegion(out, mask, e) ==
    LET converted == apply_edits(out, mask, CompMaskOf(mask), Payload(e))
    IN  IF converted.ok
        THEN Ok(OpacityBlend(converted.img, out, mask, GetOrNone(e.opacity)))
        ELSE converted

\* The loop with a lookup sess['components'][cid] that raises KeyError for
\* an id without a saved component.
RECURSIVE SamApplyLoopStrict(_, _, _, _)
SamApplyLoopStrict(sess, edits, k, out) ==
    IF k > Len(edits) \/ ~out.ok THEN out
    ELSE LET e == edits[k]
             known == e.component_id \in DOMAIN sess.components
         IN  SamApplyLoopStrict(sess, edits, k + 1,
                 IF known
                 THEN EditRegion(out.img, sess.components[e.component_id].mask, e)
                 ELSE Raised("KeyError"))

\* The loop "for e in edits" of sam_apply from entry k on, out being the
\* image so far (or the exception raised).
RECURSIVE SamApplyLoop(_, _, _, _)
SamApplyLoop(sess, edits, k, out) ==
    IF k > Len(edits) \/ ~out.ok THEN out
    ELSE LET e == edits[k]
             known == e.component_id \in DOMAIN sess.components
         IN  SamApplyLoop(sess, edits, k + 1,
                 IF known
                 THEN EditRegion(out.img, sess.components[e.component_id].mask, e)
                 ELSE out)

\* The output built from a blank image instead of a copy of the base image.
sam_apply_blank(sess, edits) ==
    SamApplyLoop(sess, edits, 1, Ok([i \in DOMAIN sess.image |-> <<0, 0, 0>>]))

\* sam_apply on a session: out = base_img.copy(), then the loop over the
\* edits; the variant image of the response, or the exception that ends the
\* request.
sam_apply(sess, edits) == SamApplyLoop(sess, edits, 1, Ok(sess.image))

\* The array arr after a caller ran apply_edits on it and blended into the
\* array returned (edited_candidate[region] = blended): the writes reach
\* arr only when the array returned is arr itself.
ArrayAfterEdit(arr, mask, e) ==
    LET r == EditRegion(arr, mask, e)
    IN  IF ReturnsInput(Payload(e)) /\ r.ok THEN r.img ELSE arr

\* Entries of /sam/apply requests: the identity edit without and with
\* opacity 1, a brightness edit, a blended brightness edit, a hue/saturation
\* edit, and edits naming component 2.
ReqEdits ==
    { MkReqEdit(1, <<0, 0, 0>>, <<Absent, Absent>>, Absent),
      MkReqEdit(1, <<0, 0, 0>>, <<Absent, Absent>>, Num(100)),
      MkReqEdit(1, <<102, 0, 0>>, <<Absent, Absent>>, Absent),
      MkReqEdit(1, <<102, 0, 0>>, <<Absent, Absent>>, Num(50)),
      MkReqEdit(1, <<0, 0, 0>>, <<Num(60), Num(0 - 50)>>, Absent),
      MkReqEdit(1, <<102, 100, 0 - 50>>, <<Num(60), Num(0 - 50)>>, Num(50)),
      MkReqEdit(2, <<102, 0, 0>>, <<Absent, Absent>>, Absent),
      MkReqEdit(2, <<0, 0, 0>>, <<Num(60), Num(0 - 50)>>, Num(50)) }

ReqEditLists ==
    {<<>>} \cup { <<e>> : e \in ReqEdits } \cup { <<e1, e2>> : e1, e2 \in ReqEdits }

\* ------------------------------------------------------------------- state
VARIABLES
    ePc,        \* compositor call: "input", "applied", "blended"
    eKind,      \* the function called: "apply_edits" or "sam_apply"
    eImg,       \* img argument of apply_edits / image of the session
    eObj,       \* object_mask argument / mask of the session's component 1
    eComp,      \* comp_mask argument
    eEdits,     \* edits argument / edits list of the request
    eOut,       \* what the call returned or raised
    eBlend      \* the image after the opacity blend, with the opacity used

editVars == <<ePc, eKind, eImg, eObj, eComp, eEdits, eOut, eBlend>>

VARIABLES
    sessions,   \* _SESSIONS: session id -> session dictionary
    assigned,   \* per session, the component ids _add_component returned, in call order
    sResp       \* the response of the last session request

sessVars == <<sessions, assigned, sResp>>

VARIABLES
    sam,          \* the model capability: "unavailable", "no_checkpoint" or "ready"
    samLoaded,    \* _SAM_PREDICTOR is not None
    cache,        \* _EMBEDDING_CACHE: cache key -> features
    predFeatures, \* predictor.features
    lastCall,     \* the last _predict_sam_mask call: key, image, features used
    computes,     \* per cache key, the set_image computations made under it
    dsTemplates,  \* the dataset's templates, in insertion order
    tpl,          \* the running _apply_templates_with_class_filter call
    cResp         \* the response of the last dataset request

cacheVars == <<sam, samLoaded, cache, predFeatures, lastCall, computes, dsTemplates, tpl, cResp>>

VARIABLES
    bPc,        \* streaming batch: "idle", "streaming", "done"
    bFiles,     \* the uploaded files, in request order
    bMode,      \* 'full' or 'center_point'
    bEdits,     \* the global edits of the request
    bPos,       \* index of the next file _gen handles
    bEvents,    \* the events _gen has yielded, in order
    bResp       \* the status the request was answered with (200: the stream)

batchVars == <<bPc, bFiles, bMode, bEdits, bPos, bEvents, bResp>>

VARIABLES
    wPc,        \* handle_job: "idle", "received", "streaming", "returned", "raised"; main: "receive"
    wJob,       \* the job: its dataset images and its number of templates
    wLines,     \* the lines of the apply_stream response the worker gets
    wEnd,       \* what follows the last line: "eof", or "raise" (iter_lines raises)
    wS3Ok,      \* whether s3.upload_file succeeds
    wNext,      \* index of the next line iter_lines yields
    wProcessed, \* processed
    wStatus,    \* the update_job calls made for the job, in order
    wUploads,   \* the keys uploaded to the outputs bucket by this run, in order
    wDeleted,   \* sqs.delete_message was called for the job's message
    wRun,       \* how many times the job's message has been received
    wFirst      \* the keys uploaded by the first run, once the message came again

workerVars == <<wPc, wJob, wLines, wEnd, wS3Ok, wNext, wProcessed, wStatus, wUploads,
                wDeleted, wRun, wFirst>>

VARIABLES
    rT,         \* concurrent requests: per thread, its position in _predict_sam_mask
    rSet        \* predictor.is_image_set

raceVars == <<rT, rSet>>

VARIABLES
    aT,         \* concurrent save_component requests: per thread, its position
    sLock       \* _SESSION_LOCK: 0 when free, else the thread holding it

saveVars == <<aT, sLock>>

VARIABLES
    dPc,        \* /sam/dataset/init: "idle", "request", "answered"
    dFiles,     \* the files of the images field, in request order
    dZip,       \* the zip field: absent, not a zip archive, or its entries
    datasets,   \* _DATASETS: the registered datasets, in creation order
    dResp       \* the response of the request

dsetVars == <<dPc, dFiles, dZip, datasets, dResp>>

VARIABLES
    gPc,        \* /sam/dataset/apply_stream: "idle", "request", "rejected", "streaming", "done"
    gTotal,     \* the number of images of the dataset
    gEdits,     \* the edits of the request
    gPos,       \* position of _stream in the images (1-based)
    gEvents,    \* the events yielded so far
    gResp       \* the status of the response

streamVars == <<gPc, gTotal, gEdits, gPos, gEvents, gResp>>

VARIABLES
    lPc,        \* _load_sam_model: "idle", "called", "returned"
    lIn,        \* the arguments, the environment and the module globals of the call
    lDisk,      \* the checkpoint files that exist
    lOut        \* the return value, and the checkpoint and model type loaded

loadVars == <<lPc, lIn, lDisk, lOut>>

VARIABLES
    mPc,        \* migrate_database: "idle", "called", "migrating", "finished"
    mDb,        \* the database: the images table, its new columns, the index
    mTodo,      \* the statements the run has still to execute
    mSnap,      \* the database as it was when the run began
    mLog,       \* the statements the run has executed, in order
    mHist       \* the finished runs: database before and after, statements, outcome

migVars == <<mPc, mDb, mTodo, mSnap, mLog, mHist>>

vars == <<editVars, sessVars, cacheVars, batchVars, workerVars, raceVars, saveVars, dsetVars, streamVars, loadVars, migVars>>

NoResult == [ok |-> FALSE, err |-> "none"]

EditsIdle ==
    /\ ePc = "idle" /\ eKind = "none"
    /\ eImg = <<>> /\ eObj = <<>> /\ eComp = <<>> /\ eEdits = <<>>
    /\ eOut = NoResult /\ eBlend = NoResult

NoResp == [op |-> "none", status |-> 0]

SessIdle ==
    /\ sessions = <<>>
    /\ assigned = <<>>
    /\ sResp = NoResp

NoFeatures == [of |-> <<>>]

NoTpl == [active |-> FALSE]

NoCall == [key |-> [ds |-> "", purpose |-> "", id |-> 0], img |-> <<>>,
           stage |-> "none", hit |-> FALSE, computed |-> 0, used |-> [of |-> <<>>]]

CacheIdle ==
    /\ sam = "ready" /\ samLoaded = FALSE
    /\ cache = <<>> /\ predFeatures = NoFeatures
    /\ lastCall = NoCall /\ computes = <<>> /\ dsTemplates = <<>>
    /\ tpl = NoTpl /\ cResp = NoResp

BatchIdle ==
    /\ bPc = "idle" /\ bFiles = <<>> /\ bMode = "full"
    /\ bEdits = <<>> /\ bPos = 0 /\ bEvents = <<>> /\ bResp = 0

WorkerIdle ==
    /\ wPc = "idle" /\ wJob = [images |-> <<>>, templates |-> 0]
    /\ wLines = <<>> /\ wEnd = "eof" /\ wS3Ok = TRUE /\ wNext = 0
    /\ wProcessed = 0 /\ wStatus = <<>> /\ wUploads = <<>> /\ wDeleted = FALSE
    /\ wRun = 0 /\ wFirst = <<>>

RaceIdle == rT = <<>> /\ rSet = FALSE

SaveIdle == aT = <<>> /\ sLock = 0

NoLoad == [ok |-> FALSE, checkpoint |-> [src |-> "", hq |-> FALSE, type |-> ""],
           model_type |-> ""]

LoadIdle == lPc = "idle" /\ lIn = <<>> /\ lDisk = {} /\ lOut = NoLoad

NoDb == [table |-> FALSE, cols |-> {}, idx |-> FALSE, transactional |-> FALSE]

MigIdle ==
    /\ mPc = "idle" /\ mDb = NoDb /\ mTodo = <<>> /\ mSnap = NoDb
    /\ mLog = <<>> /\ mHist = <<>>

StreamIdle ==
    /\ gPc = "idle" /\ gTotal = 0 /\ gEdits = <<>> /\ gPos = 0 /\ gEvents = <<>>
    /\ gResp = 0

DsetIdle ==
    /\ dPc = "idle" /\ dFiles = <<>> /\ dZip = [tag |-> "absent"]
    /\ datasets = <<>> /\ dResp = NoResp

\* ------------------------------------------------- compositor calls (pure)
\* The session a sam_apply call of this specification runs on: the image
\* with one saved component (id 1) of mask eObj.
CallSession ==
    [NewSession(eImg) EXCEPT !.components = <<MkComponent(1, eObj, 1, "")>>,
                             !.next_component_id = 2]

EditsInit ==
    /\ ePc = "input"
    /\ eKind \in {"apply_edits", "sam_apply"}
    /\ eImg \in Images
    /\ eObj \in Masks
    /\ eEdits \in (IF eKind = "apply_edits" THEN EditLists ELSE ReqEditLists)
    /\ eComp \in (IF eKind = "apply_edits" /\ Len(eEdits) = 2
                  THEN CompMasks(eObj) ELSE {CompMaskOf(eObj)})
    /\ eOut = NoResult
    /\ eBlend = NoResult
    /\ SessIdle
    /\ CacheIdle
    /\ BatchIdle
    /\ WorkerIdle
    /\ RaceIdle
    /\ SaveIdle /\ DsetIdle /\ StreamIdle /\ LoadIdle /\ MigIdle

\* A call apply_edits(img, object_mask, comp_mask, edits).
ApplyEditsCall ==
    /\ ePc = "input" /\ eKind = "apply_edits"
    /\ eOut' = apply_edits(eImg, eObj, eComp, eEdits)
    /\ ePc' = "applied"
    /\ UNCHANGED <<eKind, eImg, eObj, eComp, eEdits, eBlend, sessVars, cacheVars, batchVars, workerVars, raceVars, saveVars, dsetVars, streamVars, loadVars, migVars>>

\* The opacity blend of the callers, on the image apply_edits returned.
OpacityBlendCall ==
    /\ ePc = "applied" /\ eKind = "apply_edits"
    /\ eOut.ok
    /\ \E op \in Opacities :
         eBlend' = [ok |-> TRUE, img |-> OpacityBlend(eOut.img, eImg, eObj, op),
                    opacity |-> op]
    /\ ePc' = "blended"
    /\ UNCHANGED <<eKind, eImg, eObj, eComp, eEdits, eOut, sessVars, cacheVars, batchVars, workerVars, raceVars, saveVars, dsetVars, streamVars, loadVars, migVars>>

\* A /sam/apply request on the session CallSession.
SamApplyCall ==
    /\ ePc = "input" /\ eKind = "sam_apply"
    /\ eOut' = sam_apply(CallSession, eEdits)
    /\ ePc' = "applied"
    /\ UNCHANGED <<eKind, eImg, eObj, eComp, eEdits, eBlend, sessVars, cacheVars, batchVars, workerVars, raceVars, saveVars, dsetVars, streamVars, loadVars, migVars>>

EditsNext == ApplyEditsCall \/ OpacityBlendCall \/ SamApplyCall

SpecEdits == EditsInit /\ [][EditsNext]_vars

\* ------------------------------------------------------ two noise calls
\* The arguments of an apply_edits call with one noise edit: a grayscale or
\* a colour image, any object mask with one of its labellings, region id 1
\* or 2, std 0.04 or 0.08.
NoiseCalls ==
    { [img |-> img, obj |-> obj, comp |-> comp,
       edits |-> <<MkEdit(id, <<0, 0, 0>>, <<Absent, Absent>>, <<0, std>>)>>] :
        img \in { [i \in Pixels |-> <<128, 128, 128>>],
                  [i \in Pixels |-> IF i = 1 THEN <<200, 100, 100>> ELSE <<128, 128, 128>>] },
        obj \in Masks,
        comp \in UNION { CompMasks(m) : m \in Masks },
        id \in {1, 2}, std \in {4, 8} }

\* Call k of the two: apply_edits runs on its arguments; kept are the image
\* returned and the noise draws made.
NoiseCall(k) ==
    /\ eKind = "noise_pair" /\ eOut[k] = NoResult
    /\ eOut' = [eOut EXCEPT ![k] =
                    [ok |-> apply_edits(eImg[k], eObj[k], eComp[k], eEdits[k]).ok,
                     draws |-> EditsRun(eImg[k], eObj[k], eComp[k], eEdits[k]).draws]]
    /\ ePc' = IF \A j \in 1..2 : j = k \/ eOut[j] /= NoResult THEN "applied" ELSE "input"
    /\ UNCHANGED <<eKind, eImg, eObj, eComp, eEdits, eBlend, sessVars, cacheVars, batchVars, workerVars, raceVars, saveVars, dsetVars, streamVars, loadVars, migVars>>

NoiseInit ==
    /\ ePc = "input" /\ eKind = "noise_pair"
    /\ \E a, b \in NoiseCalls :
         /\ a.comp \in CompMasks(a.obj) /\ b.comp \in CompMasks(b.obj)
         /\ eImg = <<a.img, b.img>> /\ eObj = <<a.obj, b.obj>>
         /\ eComp = <<a.comp, b.comp>> /\ eEdits = <<a.edits, b.edits>>
    /\ eOut = <<NoResult, NoResult>>
    /\ eBlend = NoResult
    /\ SessIdle /\ CacheIdle /\ BatchIdle /\ WorkerIdle /\ RaceIdle
    /\ SaveIdle /\ DsetIdle /\ StreamIdle /\ LoadIdle /\ MigIdle

NoiseNext == \E k \in 1..2 : NoiseCall(k)

SpecNoise == NoiseInit /\ [][NoiseNext]_vars

\* The region of call k, from its arguments.
NoiseRegion(k) == RegionMask(eObj[k], eComp[k], eEdits[k][1].id)

\* C34: when both calls have drawn noise and their regions have the same
\* pixel count and the same id, they used the same seed, whatever their
\* images, masks and order; with the same std their noise fields are
\* equal entry by entry.
C34_SeedFromCountAndId ==
    (/\ ePc = "applied"
     /\ MaskCount(NoiseRegion(1)) = MaskCount(NoiseRegion(2))
     /\ eEdits[1][1].id = eEdits[2][1].id)
    => /\ Len(eOut[1].draws) = Len(eOut[2].draws)
       /\ \A d \in 1..Len(eOut[1].draws) :
             /\ eOut[1].draws[d].seed = eOut[2].draws[d].seed
             /\ eOut[1].draws[d].std = eOut[2].draws[d].std
                  => eOut[1].draws[d].n = eOut[2].draws[d].n

\* Both calls drew noise for a region of one pixel with id 1, on different
\* images and different pixels, and the fields are the same.
C34_Witness ==
    /\ ePc = "applied" /\ eKind = "noise_pair"
    /\ eImg[1] /= eImg[2] /\ NoiseRegion(1) /= NoiseRegion(2)
    /\ MaskCount(NoiseRegion(1)) = 1 /\ MaskCount(NoiseRegion(2)) = 1
    /\ eEdits[1] = eEdits[2] /\ eEdits[1][1].id = 1
    /\ Len(eOut[1].draws) = 1 /\ Len(eOut[2].draws) = 1
    /\ eOut[1].draws[1] = eOut[2].draws[1]

\* ------------------------------------------------------------ session store
\* A dictionary entry d[k] = v.
Put(d, k, v) == (k :> v) @@ d

\* The images sessions are created with: a grayscale and a colour image.
SessImages ==
    { [i \in Pixels |-> <<128, 128, 128>>],
      [i \in Pixels |-> IF i = 1 THEN <<200, 100, 100>> ELSE <<128, 128, 128>>] }

\* A raster that keeps the mask's 0 and 1 without the factor 255.
RasterOfUnscaled(mask) == [i \in DOMAIN mask |-> IF mask[i] THEN 1 ELSE 0]

\* Mask rasters as sam_segment encodes them and the client sends them back:
\* (m*255).astype(np.uint8), one 8-bit intensity per pixel.
RasterOf(mask) == [i \in DOMAIN mask |-> IF mask[i] THEN 255 ELSE 0]

\* The masks saved as components: the empty mask, the first pixel, the last
\* pixel, all pixels.
SaveMasks ==
    { [i \in Pixels |-> FALSE], [i \in Pixels |-> i = 1], [i \in Pixels |-> i = NPix],
      [i \in Pixels |-> TRUE] }

\* The mask_png string of a mask: the PNG of its raster, base64-encoded.
EncodeMask(mask) == [tag |-> "png", px |-> RasterOf(mask)]

\* One entry of the candidates list of a segment response.
SegCandidate(c, rank) ==
    [rank |-> rank, score |-> c.score, area |-> MaskCount(c.mask), bbox |-> BBox(c.mask),
     mask_png |-> EncodeMask(c.mask)]

\* The candidates in the order the model returned them, without the sort.
SegResultsUnsorted(env, top_k) ==
    [k \in 1..Min2(top_k, Len(env.cands)) |-> SegCandidate(env.cands[k], k)]

\* masks[order] for order = np.argsort(-scores), then one entry for each i
\* in range(min(top_k, masks.shape[0])), which is empty for top_k <= 0.
SegResults(env, top_k) ==
    [k \in 1..Min2(top_k, Len(env.cands)) |-> SegCandidate(env.cands[env.order[k]], k)]

\* The mask_png field of a save request: missing, not a decodable image, or
\* the raster of a mask.
MaskPngs ==
    { [tag |-> "absent"], [tag |-> "bad"] }
        \cup { EncodeMask(m) : m \in SaveMasks }

\* mask = (np.array(mask_img) > 127)
DecodeMask(png) == [i \in DOMAIN png.px |-> png.px[i] > 127]

\* _session_init: a fresh id (uuid4), the session stored under it.
SessionInit(image) ==
    /\ Len(sessions) < MaxSessions
    /\ sessions' = Append(sessions, NewSession(image))
    /\ assigned' = Append(assigned, <<>>)
    /\ sResp' = [op |-> "init", status |-> 200, image_id |-> Len(sessions) + 1]
    /\ UNCHANGED <<editVars, cacheVars, batchVars, workerVars, raceVars, saveVars, dsetVars, streamVars, loadVars, migVars>>

\* The component id stays at the one read: next_component_id never moves.
AddComponentNoIncrement(sess, mask, score, name) ==
    LET comp_id == sess.next_component_id
    IN  [sess EXCEPT !.components = Put(@, comp_id, MkComponent(comp_id, mask, score, name))]

\* _add_component on the session found: comp_id = sess['next_component_id'];
\* sess['next_component_id'] += 1; sess['components'][comp_id] = comp.
AddComponent(sess, mask, score, name) ==
    LET comp_id == sess.next_component_id
    IN  [sess EXCEPT !.next_component_id = @ + 1,
                     !.components = Put(@, comp_id, MkComponent(comp_id, mask, score, name))]

\* The payload of a /sam/save_component request.
SaveRequest(sid, png) == [image_id |-> sid, mask_png |-> png]

\* /sam/save_component for image_id sid (0: an id no session has).
SamSaveComponent(sid, png) ==
    /\ sid \in DOMAIN sessions => sessions[sid].next_component_id <= MaxComponents
    /\ IF sid \notin DOMAIN sessions
       THEN /\ sResp' = [op |-> "save", status |-> 400, error |-> "invalid image_id",
                         req |-> SaveRequest(sid, png)]
            /\ UNCHANGED <<sessions, assigned>>
       ELSE IF png.tag = "absent"
       THEN /\ sResp' = [op |-> "save", status |-> 400, error |-> "mask_png required",
                         req |-> SaveRequest(sid, png)]
            /\ UNCHANGED <<sessions, assigned>>
       ELSE IF png.tag = "bad"
       THEN /\ sResp' = [op |-> "save", status |-> 400, error |-> "invalid mask_png",
                         req |-> SaveRequest(sid, png)]
            /\ UNCHANGED <<sessions, assigned>>
       ELSE LET comp_id == sessions[sid].next_component_id
            IN  /\ sessions' = [sessions EXCEPT ![sid] = AddComponent(@, DecodeMask(png), 0, "")]
                /\ assigned' = [assigned EXCEPT ![sid] = Append(@, comp_id)]
                /\ sResp' = [op |-> "save", status |-> 200, image_id |-> sid,
                             component |-> comp_id, error |-> "",
                             req |-> SaveRequest(sid, png)]
    /\ UNCHANGED <<editVars, cacheVars, batchVars, workerVars, raceVars, saveVars, dsetVars, streamVars, loadVars, migVars>>

Init ==
    /\ SessIdle
    /\ EditsIdle
    /\ CacheIdle
    /\ BatchIdle
    /\ WorkerIdle
    /\ RaceIdle
    /\ SaveIdle /\ DsetIdle /\ StreamIdle /\ LoadIdle /\ MigIdle

Next ==
    \/ \E image \in SessImages : SessionInit(image)
    \/ \E sid \in 0..MaxSessions, png \in MaskPngs : SamSaveComponent(sid, png)

Spec == Init /\ [][Next]_vars

\* ----------------------------------------------- session store: properties
\* C1: in every session the component ids handed out by save_component are
\* 1, 2, 3, ... in call order.
C1_ComponentIdsSequential ==
    \A sid \in DOMAIN sessions :
        /\ \A k \in 1..Len(assigned[sid]) : assigned[sid][k] = k
        /\ sessions[sid].next_component_id = Len(assigned[sid]) + 1

C1_Witness ==
    \E sid \in DOMAIN sessions :
        /\ Len(assigned[sid]) >= 2
        /\ sessions[sid].components[2].id = 2
        /\ \E other \in DOMAIN sessions : other /= sid /\ Len(assigned[other]) = 1

\* --------------------------------------------------------- embedding cache
\* predictor.set_image(arr): the features are those of the array given.
Features(arr) == [of |-> arr]

\* File names are sequences of characters.
NamePass == <<"a", "_", "P", "a", "s", "s">>
NameFail == <<"b", "_", "f", "a", "i", "l">>
NamePlain == <<"c", "_", "r", "a", "w">>

\* str.lower() on the characters that occur.
LowerChar(c) ==
    CASE c = "P" -> "p" [] c = "A" -> "a" [] c = "S" -> "s"
      [] c = "F" -> "f" [] c = "I" -> "i" [] c = "L" -> "l"
      [] OTHER -> c

Lower(name) == [i \in DOMAIN name |-> LowerChar(name[i])]

\* sub in name
Contains(name, sub) ==
    \E i \in 1..(Len(name) - Len(sub) + 1) : SubSeq(name, i, i + Len(sub) - 1) = sub

\* image_class of _apply_templates_with_class_filter ("" stands for None).
ImageClass(filename) ==
    IF Contains(Lower(filename), <<"p", "a", "s", "s">>) THEN "pass"
    ELSE IF Contains(Lower(filename), <<"f", "a", "i", "l">>) THEN "fail"
    ELSE ""

\* The images of the dataset: a grayscale image and a colour image whose
\* names carry a class, and a grayscale image whose name carries none.
DsImages ==
    << [id |-> 1, filename |-> NamePass, image |-> [i \in Pixels |-> <<128, 128, 128>>]],
       [id |-> 2, filename |-> NameFail,
        image |-> [i \in Pixels |-> IF i = 1 THEN <<200, 100, 100>> ELSE <<128, 128, 128>>]],
       [id |-> 3, filename |-> NamePlain, image |-> [i \in Pixels |-> <<128, 128, 128>>]] >>

DsImageIds == 1..Len(DsImages)

\* The images the direct call, the point preview and the template preview
\* are made on; the apply stream runs over every image.
PreviewImageIds == {1}

\* Cache keys: f"{ds_id}_{image_id}_preview", f"{ds_id}_template_preview_{id}",
\* f"{ds_id}_gen_{id}", and the key of a direct call f"{ds_id}_img_{id}".
MkKey(purpose, imgid) == [ds |-> "ds", purpose |-> purpose, id |-> imgid]
NoKey == [ds |-> "", purpose |-> "", id |-> 0]
PreviewKey(imgid) == MkKey("preview", imgid)
TemplatePreviewKey(imgid) == MkKey("template_preview", imgid)
GenKey(imgid) == MkKey("gen", imgid)
DirectKey(imgid) == MkKey("img", imgid)

\* A normalized point prompt (coordinates in percent).
CenterPoint == [x_norm |-> 50, y_norm |-> 50, positive |-> TRUE]

MkTemplate(tid, class) == [id |-> tid, class |-> class, points |-> <<CenterPoint>>]

\* The template maps of a dataset, as sequences in insertion order.
TemplateLists ==
    { <<MkTemplate(1, "")>>,
      <<MkTemplate(1, ""), MkTemplate(2, "")>>,
      <<MkTemplate(1, "pass"), MkTemplate(2, "")>> }

\* The edits of a template request: template id -> edit values.
TplEditDicts ==
    { <<>>,
      (1 :> MkReqEdit(1, <<102, 0, 0>>, <<Num(60), Num(0 - 50)>>, Absent)),
      (1 :> MkReqEdit(1, <<102, 0, 0>>, <<Num(60), Num(0 - 50)>>, Absent))
        @@ (2 :> MkReqEdit(2, <<0, 100, 0>>, <<Absent, Absent>>, Num(50))) }

\* What predictor.predict returns: candidate masks with scores.
CandLists ==
    { << [mask |-> [i \in Pixels |-> i = 1], score |-> 9],
         [mask |-> [i \in Pixels |-> TRUE], score |-> 5] >>,
      << [mask |-> [i \in Pixels |-> FALSE], score |-> 5],
         [mask |-> [i \in Pixels |-> TRUE], score |-> 5] >> }

\* order = np.argsort(-scores); idx = order[0]: the indexes argsort can put
\* first. The default sort kind is not a stable one, so among candidates
\* of equal score the order is whatever the sort of the numpy build gives.
BestIndexes(cands) ==
    { i \in 1..Len(cands) : \A j \in 1..Len(cands) : cands[j].score <= cands[i].score }

\* What the model does in one call: set_image and predict may raise,
\* predict returns some candidate list, and argsort puts the candidate
\* first first.
PredictEnvs ==
    { env \in [set_image_raises : BOOLEAN, predict_raises : BOOLEAN, cands : CandLists,
               first : 1..2] :
        env.first \in BestIndexes(env.cands) }

\* The features computed on a miss are not stored.
CacheStoreSkipped(c, key, feats) == c

\* if cache_key: _EMBEDDING_CACHE[cache_key] = predictor.features
CacheStore(c, key, feats) == IF key /= NoKey THEN Put(c, key, feats) ELSE c

\* _predict_sam_mask(arr, norm_points, cache_key) in the current state, the
\* model behaving as env says: status "none" is the (None, None) return,
\* "raised" an exception, "ok" the best mask with its score.  call records
\* the key, the image given, the features the predict step ran on, and
\* whether set_image completed.
PredictSam(arr, points, key, env) ==
    LET loaded == samLoaded \/ sam = "ready"
        hit == key /= NoKey /\ key \in DOMAIN cache
        early == [status |-> "none", cache |-> cache, features |-> predFeatures,
                  call |-> [key |-> key, img |-> arr, stage |-> "early", hit |-> FALSE,
                            computed |-> 0, used |-> NoFeatures]]
        feats == IF hit THEN cache[key] ELSE Features(arr)
        cache2 == IF hit THEN cache ELSE CacheStore(cache, key, feats)
        call == [key |-> key, img |-> arr, stage |-> "predict", hit |-> hit,
                 computed |-> IF hit THEN 0 ELSE 1, used |-> feats]
        best == env.cands[env.first]
    IN  IF sam = "unavailable" THEN early @@ [loaded |-> samLoaded]
        ELSE IF ~loaded THEN early @@ [loaded |-> FALSE]
        ELSE IF Len(points) = 0 THEN early @@ [loaded |-> TRUE]
        ELSE IF ~hit /\ env.set_image_raises
        THEN [status |-> "raised", cache |-> cache, features |-> NoFeatures, loaded |-> TRUE,
              call |-> [call EXCEPT !.stage = "set_image", !.computed = 0,
                                    !.used = NoFeatures]]
        ELSE IF env.predict_raises
        THEN [status |-> "raised", cache |-> cache2, features |-> feats, loaded |-> TRUE,
              call |-> call]
        ELSE [status |-> "ok", cache |-> cache2, features |-> feats, loaded |-> TRUE,
              call |-> call, mask |-> best.mask, score |-> best.score]

\* The state a _predict_sam_mask call leaves.
PredictEffect(r) ==
    /\ cache' = r.cache
    /\ predFeatures' = r.features
    /\ samLoaded' = r.loaded
    /\ lastCall' = r.call
    /\ computes' = IF r.call.computed = 1 /\ r.call.key /= NoKey
                   THEN Put(computes, r.call.key,
                            IF r.call.key \in DOMAIN computes
                            THEN Min2(2, computes[r.call.key] + 1) ELSE 1)
                   ELSE computes

\* A direct call _predict_sam_mask(image, points, cache_key), as in
\* test_cache_fix.py; keyed says whether a cache key is given.
PredictCall(imgid, points, keyed) ==
    /\ ~tpl.active
    /\ \E env \in PredictEnvs :
         LET r == PredictSam(DsImages[imgid].image, points,
                             IF keyed THEN DirectKey(imgid) ELSE NoKey, env)
         IN  /\ PredictEffect(r)
             /\ cResp' = IF r.status = "ok"
                         THEN [op |-> "predict", status |-> r.status, cands |-> env.cands,
                               mask |-> r.mask, score |-> r.score]
                         ELSE [op |-> "predict", status |-> r.status]
    /\ UNCHANGED <<sam, dsTemplates, tpl, editVars, sessVars, batchVars, workerVars, raceVars, saveVars, dsetVars, streamVars, loadVars, migVars>>

\* if _SAM_PREDICTOR is None and not _load_sam_model('vit_b'): return error
SamGuardFails == ~samLoaded /\ sam /= "ready"

\* /sam/dataset/point_preview for an image of the dataset.
PointPreview(imgid) ==
    /\ ~tpl.active
    /\ IF SamGuardFails
       THEN /\ cResp' = [op |-> "point_preview", status |-> 500]
            /\ UNCHANGED <<cache, predFeatures, samLoaded, lastCall, computes>>
       ELSE \E env \in PredictEnvs :
              LET r == PredictSam(DsImages[imgid].image, <<CenterPoint>>,
                                  PreviewKey(imgid), env)
              IN  /\ PredictEffect(r)
                  /\ cResp' = [op |-> "point_preview",
                               status |-> IF r.status = "ok" THEN 200 ELSE 500]
    /\ UNCHANGED <<sam, dsTemplates, tpl, editVars, sessVars, batchVars, workerVars, raceVars, saveVars, dsetVars, streamVars, loadVars, migVars>>

\* The entry of _apply_templates_with_class_filter from
\* /sam/dataset/template/preview (purpose "template_preview") or from one
\* image of /sam/dataset/apply_stream (purpose "gen"): out = arr.copy().
TplBegin(imgid, purpose, edits) ==
    /\ ~tpl.active
    /\ IF SamGuardFails
       THEN /\ cResp' = [op |-> purpose, status |-> 500]
            /\ UNCHANGED <<tpl, samLoaded>>
       ELSE /\ tpl' = [active |-> TRUE, imgid |-> imgid, purpose |-> purpose,
                       key |-> IF purpose = "gen" THEN GenKey(imgid)
                               ELSE TemplatePreviewKey(imgid),
                       edits |-> edits, k |-> 1, out |-> DsImages[imgid].image,
                       cumulative |-> [i \in Pixels |-> FALSE], applied |-> 0,
                       appliedIds |-> <<>>, prev |-> DsImages[imgid].image,
                       lastMask |-> [i \in Pixels |-> FALSE]]
            /\ samLoaded' = TRUE
            /\ cResp' = [op |-> purpose, status |-> 0]
    /\ UNCHANGED <<sam, cache, predFeatures, lastCall, computes, dsTemplates, editVars, sessVars, batchVars, workerVars, raceVars, saveVars, dsetVars, streamVars, loadVars, migVars>>

\* One iteration of "for tid, tpl in templates.items()".
TplStep ==
    /\ tpl.active /\ tpl.k <= Len(dsTemplates)
    /\ LET t == dsTemplates[tpl.k]
           image_class == ImageClass(DsImages[tpl.imgid].filename)
           skipped == \/ (t.class /= "" /\ image_class /= "" /\ t.class /= image_class)
                      \/ (tpl.edits /= <<>> /\ t.id \notin DOMAIN tpl.edits)
           edit_vals == IF t.id \in DOMAIN tpl.edits THEN tpl.edits[t.id]
                        ELSE MkReqEdit(t.id, <<0, 0, 0>>, <<Absent, Absent>>, Absent)
       IN  IF skipped
           THEN /\ tpl' = [tpl EXCEPT !.k = @ + 1]
                /\ UNCHANGED <<cache, predFeatures, samLoaded, lastCall, computes, cResp>>
           ELSE \E env \in PredictEnvs :
                  LET r == PredictSam(tpl.out, t.points, tpl.key, env)
                      edited == EditRegion(tpl.out, r.mask, edit_vals)
                  IN  /\ PredictEffect(r)
                      /\ IF r.status = "raised"
                         THEN /\ tpl' = NoTpl
                              /\ cResp' = [op |-> tpl.purpose, status |-> 500]
                         ELSE IF r.status = "none"
                         THEN /\ tpl' = [tpl EXCEPT !.k = @ + 1]
                              /\ UNCHANGED cResp
                         ELSE IF ~edited.ok
                         THEN /\ tpl' = NoTpl
                              /\ cResp' = [op |-> tpl.purpose, status |-> 500]
                         ELSE /\ tpl' = [tpl EXCEPT
                                           !.k = @ + 1, !.out = edited.img,
                                           !.applied = @ + 1,
                                           !.appliedIds = Append(@, t.id),
                                           !.prev = tpl.out, !.lastMask = r.mask,
                                           !.cumulative =
                                              [i \in Pixels |-> @[i] \/ r.mask[i]]]
                              /\ UNCHANGED cResp
    /\ UNCHANGED <<sam, dsTemplates, editVars, sessVars, batchVars, workerVars, raceVars, saveVars, dsetVars, streamVars, loadVars, migVars>>

\* return out, cumulative: the caller encodes the image into its response.
TplEnd ==
    /\ tpl.active /\ tpl.k > Len(dsTemplates)
    /\ cResp' = [op |-> tpl.purpose, status |-> 200, img |-> tpl.out,
                 mask |-> tpl.cumulative, imgid |-> tpl.imgid,
                 appliedIds |-> tpl.appliedIds]
    /\ tpl' = NoTpl
    /\ UNCHANGED <<sam, samLoaded, cache, predFeatures, lastCall, computes, dsTemplates,
                   editVars, sessVars, batchVars, workerVars, raceVars, saveVars, dsetVars, streamVars, loadVars, migVars>>

CacheInit ==
    /\ sam \in {"unavailable", "no_checkpoint", "ready"}
    /\ samLoaded = FALSE
    /\ cache = <<>> /\ predFeatures = NoFeatures
    /\ lastCall = NoCall /\ computes = <<>>
    /\ dsTemplates \in TemplateLists
    /\ tpl = NoTpl /\ cResp = NoResp
    /\ SessIdle /\ EditsIdle /\ BatchIdle /\ WorkerIdle /\ RaceIdle /\ SaveIdle /\ DsetIdle /\ StreamIdle /\ LoadIdle /\ MigIdle

CacheNext ==
    \/ \E imgid \in PreviewImageIds, points \in {<<>>, <<CenterPoint>>}, keyed \in BOOLEAN :
         PredictCall(imgid, points, keyed)
    \/ \E imgid \in PreviewImageIds : PointPreview(imgid)
    \/ \E imgid \in PreviewImageIds, edits \in TplEditDicts :
         TplBegin(imgid, "template_preview", edits)
    \/ \E imgid \in DsImageIds, edits \in TplEditDicts : TplBegin(imgid, "gen", edits)
    \/ TplStep
    \/ TplEnd

SpecCache == CacheInit /\ [][CacheNext]_vars

\* ------------------------------------------------------------ model loading
\* A checkpoint path: the one given as argument, the one of SAM_CHECKPOINT,
\* or models/sam_<type>.pth (hq: models/sam_hq_<type>.pth).
Path(src, hq, type) == [src |-> src, hq |-> hq, type |-> type]
NoPath == Path("", FALSE, "")
ArgPath == Path("arg", FALSE, "")
EnvPath == Path("env", FALSE, "")

ModelFiles ==
    { Path("models", FALSE, "vit_t"), Path("models", FALSE, "vit_b"),
      Path("models", TRUE, "vit_tiny"), Path("models", TRUE, "vit_b") }

\* The calls: the model_type and checkpoint_path arguments ("" and NoPath
\* for None), SAM_MODEL_TYPE and SAM_CHECKPOINT ("" and NoPath when unset),
\* the package imported, whether a predictor is loaded already, and whether
\* building the model from the checkpoint raises.
LoadCalls ==
    [model_type : {"", "vit_b"}, checkpoint_path : {NoPath, ArgPath},
     env_type : {"", "vit_t"}, env_ckpt : {NoPath, EnvPath},
     available : BOOLEAN, using_hq : BOOLEAN, loaded : BOOLEAN, build_raises : BOOLEAN]

\* default_paths.get(model_type, default_paths.get('vit_t', ...))
DefaultPath(using_hq, model_type) ==
    IF using_hq
    THEN IF model_type \in {"vit_t", "vit_tiny"} THEN Path("models", TRUE, "vit_tiny")
         ELSE IF model_type = "vit_b" THEN Path("models", TRUE, "vit_b")
         ELSE Path("models", TRUE, "vit_tiny")
    ELSE IF model_type = "vit_b" THEN Path("models", FALSE, "vit_b")
         ELSE Path("models", FALSE, "vit_t")

\* checkpoint_path = env_ckpt or checkpoint_path or default_paths.get(...)
FirstChoice(c, model_type) ==
    IF c.env_ckpt /= NoPath THEN c.env_ckpt
    ELSE IF c.checkpoint_path /= NoPath THEN c.checkpoint_path
    ELSE DefaultPath(c.using_hq, model_type)

\* Whether sam_<model_type>* (hq: sam_hq_<model_type>*) matches the file.
NameStartsWith(f, model_type) ==
    f.type = model_type \/ (model_type = "vit_t" /\ f.type = "vit_tiny")

\* glob.glob of the patterns in their order (no file is under py/models):
\* the files of each pattern, as sets since glob returns them in the order
\* of the directory listing.
GlobPatterns(model_type, disk) ==
    LET models == {f \in disk : f.src = "models"}
    IN  << {f \in models : f.hq /\ NameStartsWith(f, model_type)},
           {f \in models : ~f.hq /\ NameStartsWith(f, model_type)},
           {f \in models : f.hq},
           {f \in models : ~f.hq} >>

\* The files candidates[0] can be.
FirstCandidates(model_type, disk) ==
    LET pats == GlobPatterns(model_type, disk)
        hits == {k \in 1..Len(pats) : pats[k] /= {}}
    IN  IF hits = {} THEN {}
        ELSE pats[CHOOSE k \in hits : \A j \in hits : k <= j]

\* The model type read from the name of a file found by glob.
TypeFromName(f, using_hq, model_type) ==
    IF f.type = "vit_b" THEN "vit_b"
    ELSE IF f.type \in {"vit_t", "vit_tiny"}
    THEN (IF using_hq THEN "vit_tiny" ELSE "vit_t")
    ELSE model_type

\* _load_sam_model(model_type, checkpoint_path).
LoadSamModel ==
    /\ lPc = "called"
    /\ lPc' = "returned"
    /\ LET c == lIn
           mt0 == IF c.model_type = ""
                  THEN (IF c.using_hq THEN "vit_tiny" ELSE "vit_t") ELSE c.model_type
           mt == IF c.env_type /= "" THEN c.env_type ELSE mt0
           first == FirstChoice(c, mt)
           cands == FirstCandidates(mt, lDisk)
       IN  IF ~c.available THEN lOut' = NoLoad
           ELSE IF c.loaded THEN lOut' = [NoLoad EXCEPT !.ok = TRUE]
           ELSE IF first \in lDisk
           THEN lOut' = IF c.build_raises THEN NoLoad
                        ELSE [ok |-> TRUE, checkpoint |-> first, model_type |-> mt]
           ELSE IF cands = {} THEN lOut' = NoLoad
           ELSE \E f \in cands :
                  lOut' = IF c.build_raises THEN NoLoad
                          ELSE [ok |-> TRUE, checkpoint |-> f,
                                model_type |-> TypeFromName(f, c.using_hq, mt)]
    /\ UNCHANGED <<lIn, lDisk, editVars, sessVars, cacheVars, batchVars, workerVars,
                   raceVars, saveVars, dsetVars, streamVars, migVars>>

LoadInit ==
    /\ lPc = "called"
    /\ lIn \in LoadCalls
    /\ lDisk \in SUBSET ({ArgPath, EnvPath} \cup ModelFiles)
    /\ lOut = NoLoad
    /\ SessIdle /\ EditsIdle /\ CacheIdle /\ BatchIdle /\ WorkerIdle /\ RaceIdle /\ SaveIdle
    /\ DsetIdle /\ StreamIdle /\ MigIdle

LoadNext == LoadSamModel

SpecLoad == LoadInit /\ [][LoadNext]_vars

\* C28: a call that loads the model takes the checkpoint from the explicit
\* checkpoint_path argument when one is given, else from SAM_CHECKPOINT when
\* it is set, else from the default path of the model type, and from the
\* glob matches when that file does not exist; with both the argument and
\* the environment variable set, the argument is the one used.
C28_CheckpointOrder ==
    (lPc = "returned" /\ lOut.ok /\ ~lIn.loaded)
    => LET mt0 == IF lIn.model_type = ""
                  THEN (IF lIn.using_hq THEN "vit_tiny" ELSE "vit_t")
                  ELSE lIn.model_type
           mt == IF lIn.env_type /= "" THEN lIn.env_type ELSE mt0
           chosen == IF lIn.checkpoint_path /= NoPath THEN lIn.checkpoint_path
                     ELSE IF lIn.env_ckpt /= NoPath THEN lIn.env_ckpt
                     ELSE DefaultPath(lIn.using_hq, mt)
       IN  IF chosen \in lDisk THEN lOut.checkpoint = chosen
           ELSE lOut.checkpoint \in FirstCandidates(mt, lDisk)

\* ---------------------------------------------------- dataset apply stream
\* out as _stream yields it for the image at position pos (index pos - 1):
\* error says whether the key error was set instead of variant_png.
StreamItem(pos, total, error) ==
    [type |-> "item", index |-> pos - 1, total |-> total,
     filename |-> DsImages[pos].filename, image_id |-> DsImages[pos].id,
     error |-> error]

\* 'data: {"done":true}'
StreamDoneEvent == [type |-> "done"]

\* dataset_apply_stream up to the Response, for a request that names the
\* dataset: the model guard and the no_templates answer.
StreamOpen ==
    /\ gPc = "request"
    /\ IF SamGuardFails
       THEN gResp' = 500 /\ gPc' = "rejected" /\ UNCHANGED <<gPos, samLoaded>>
       ELSE IF dsTemplates = <<>>
       THEN gResp' = 400 /\ gPc' = "rejected" /\ gPos' = gPos /\ samLoaded' = TRUE
       ELSE gResp' = 200 /\ gPc' = "streaming" /\ gPos' = 1 /\ samLoaded' = TRUE
    /\ UNCHANGED <<gTotal, gEdits, gEvents,
                   sam, cache, predFeatures, lastCall, computes, dsTemplates, tpl, cResp,
                   editVars, sessVars, batchVars, workerVars, raceVars, saveVars, dsetVars, loadVars, migVars>>

\* The try block of the next image up to the call of
\* _apply_templates_with_class_filter, which TplStep and TplEnd continue.
StreamImageBegin ==
    /\ gPc = "streaming" /\ gPos <= gTotal
    /\ cResp.op = "none"
    /\ TplBegin(gPos, "gen", gEdits)

\* Image.open(im['path']) raises (the file is gone or unreadable): the
\* except clause sets out['error'] and the event is yielded.
StreamImageUnreadable ==
    /\ gPc = "streaming" /\ gPos <= gTotal
    /\ cResp.op = "none" /\ ~tpl.active
    /\ gEvents' = Append(gEvents, StreamItem(gPos, gTotal, TRUE))
    /\ gPos' = gPos + 1
    /\ UNCHANGED <<gPc, gTotal, gEdits, gResp, cacheVars,
                   editVars, sessVars, batchVars, workerVars, raceVars, saveVars, dsetVars, loadVars, migVars>>

\* The stream without its except clause: the exception of an image leaves
\* the generator, which ends the stream with nothing yielded.
StreamYieldUnguarded ==
    /\ gPc = "streaming" /\ ~tpl.active
    /\ cResp.op = "gen" /\ cResp.status \in {200, 500}
    /\ IF cResp.status = 500
       THEN gEvents' = gEvents /\ gPos' = gPos /\ gPc' = "done"
       ELSE /\ gEvents' = Append(gEvents, StreamItem(gPos, gTotal, FALSE))
            /\ gPos' = gPos + 1 /\ gPc' = gPc
    /\ cResp' = NoResp
    /\ UNCHANGED <<gTotal, gEdits, gResp,
                   sam, samLoaded, cache, predFeatures, lastCall, computes, dsTemplates, tpl,
                   editVars, sessVars, batchVars, workerVars, raceVars, saveVars, dsetVars, loadVars, migVars>>

\* The rest of the iteration once _apply_templates_with_class_filter has
\* returned or raised: variant_png or error is set, and out is yielded.
StreamYield ==
    /\ gPc = "streaming" /\ ~tpl.active
    /\ cResp.op = "gen" /\ cResp.status \in {200, 500}
    /\ gEvents' = Append(gEvents, StreamItem(gPos, gTotal, cResp.status = 500))
    /\ gPos' = gPos + 1
    /\ cResp' = NoResp
    /\ UNCHANGED <<gPc, gTotal, gEdits, gResp,
                   sam, samLoaded, cache, predFeatures, lastCall, computes, dsTemplates, tpl,
                   editVars, sessVars, batchVars, workerVars, raceVars, saveVars, dsetVars, loadVars, migVars>>

\* yield 'data: {"done":true}' after the loop.
StreamFinish ==
    /\ gPc = "streaming" /\ gPos > gTotal
    /\ gEvents' = Append(gEvents, StreamDoneEvent)
    /\ gPc' = "done"
    /\ UNCHANGED <<gTotal, gEdits, gPos, gResp, cacheVars,
                   editVars, sessVars, batchVars, workerVars, raceVars, saveVars, dsetVars, loadVars, migVars>>

StreamInit ==
    /\ gPc = "request"
    /\ gTotal \in 0..MaxImages
    /\ gEdits \in TplEditDicts
    /\ gPos = 0 /\ gEvents = <<>> /\ gResp = 0
    /\ sam \in {"unavailable", "no_checkpoint", "ready"}
    /\ samLoaded = FALSE
    /\ cache = <<>> /\ predFeatures = NoFeatures
    /\ lastCall = NoCall /\ computes = <<>>
    /\ dsTemplates \in TemplateLists \cup {<<>>}
    /\ tpl = NoTpl /\ cResp = NoResp
    /\ SessIdle /\ EditsIdle /\ BatchIdle /\ WorkerIdle /\ RaceIdle /\ SaveIdle /\ DsetIdle
    /\ LoadIdle /\ MigIdle

StreamNext ==
    \/ StreamOpen
    \/ StreamImageBegin
    \/ StreamImageUnreadable
    \/ (gPc = "streaming" /\ TplStep)
    \/ (gPc = "streaming" /\ TplEnd)
    \/ StreamYield
    \/ StreamFinish

SpecStream == StreamInit /\ [][StreamNext]_vars

\* C23: the events of the dataset apply stream are item events with index
\* 0, 1, ... in dataset order and total = N, one per image handled so far
\* (an image is begun only when every image before it has its event); an
\* image whose processing raised has an item event with the error set and
\* the stream goes on; the finished stream is N item events followed by
\* exactly one done event.
C23_StreamOrdered ==
    LET items == IF gPc = "done" THEN Len(gEvents) - 1 ELSE Len(gEvents)
    IN  gPc \in {"streaming", "done"} =>
          /\ items = gPos - 1
          /\ \A i \in 1..items :
                /\ gEvents[i].type = "item"
                /\ gEvents[i].index = i - 1 /\ gEvents[i].total = gTotal
                /\ gEvents[i].filename = DsImages[i].filename
                /\ gEvents[i].image_id = DsImages[i].id
          /\ tpl.active => tpl.imgid = gPos
          /\ (cResp.op = "gen" /\ ~tpl.active /\ cResp.status = 500) => gPos <= gTotal
          /\ gPc = "done" => /\ items = gTotal
                             /\ gEvents[Len(gEvents)] = StreamDoneEvent

C23_Witness ==
    /\ gPc = "done" /\ gTotal = MaxImages
    /\ gEvents[1].error /\ ~gEvents[2].error
    /\ lastCall.stage = "predict"

\* -------------------------------------------------------- streaming batch
\* The uploaded files: a name and the bytes, which decode to an image (a
\* grayscale one, a colour one) or make Image.open raise.  Two of the files
\* share a name.
BatchFiles ==
    { [filename |-> "a.png",
       content |-> [tag |-> "image", px |-> [i \in Pixels |-> <<128, 128, 128>>]]],
      [filename |-> "b.png",
       content |-> [tag |-> "image",
                    px |-> [i \in Pixels |-> IF i = 1 THEN <<200, 100, 100>>
                                             ELSE <<128, 128, 128>>]]],
      [filename |-> "a.png", content |-> [tag |-> "bad"]] }

RECURSIVE SeqsUpTo(_, _)
SeqsUpTo(S, n) ==
    IF n = 0 THEN {<<>>}
    ELSE LET shorter == SeqsUpTo(S, n - 1)
         IN  shorter \cup {Append(q, x) : q \in {r \in shorter : Len(r) = n - 1}, x \in S}

\* The edits field of the form: none, a brightness edit, an opacity alone.
BatchEdits ==
    { MkReqEdit(1, <<0, 0, 0>>, <<Absent, Absent>>, Absent),
      MkReqEdit(1, <<102, 0, 0>>, <<Absent, Absent>>, Absent),
      MkReqEdit(1, <<0, 0, 0>>, <<Absent, Absent>>, Num(50)) }

\* any_edit: a value of comp_edit that is neither 0 nor None, or an opacity.
AnyEdit(e) ==
    LET comp_edit == Payload(e)[1]
    IN  \/ comp_edit.brightness /= 0 \/ comp_edit.contrast /= 0 \/ comp_edit.gamma /= 0
        \/ comp_edit.hue \notin {None, Num(0)}
        \/ comp_edit.saturation \notin {None, Num(0)}
        \/ comp_edit.sharpen /= 0 \/ comp_edit.noise /= 0
        \/ GetOrNone(e.opacity) /= None

\* out_obj as it is yielded: image_id 0 and an empty variant stand for the
\* keys that were never set.
ItemEvent(filename, mode, image_id, error, variant) ==
    [type |-> "item", filename |-> filename, mode |-> mode, image_id |-> image_id,
     error |-> error, variant_png |-> variant]

DoneEvent == [type |-> "done"]

\* The body of the try block for one file, the model behaving as env says:
\* the session store it leaves, the features of the predictor, and the
\* event yielded after the block.
BatchFile(f, mode, e, env, store) ==
    LET image_id == Len(store) + 1
        arr == f.content.px
        created == Append(store, NewSession(arr))
        center == mode = "center_point"
        best == env.cands[env.first]
        mask == IF center THEN best.mask ELSE [i \in DOMAIN arr |-> TRUE]
        score == IF center THEN best.score ELSE 1
        withComp == [created EXCEPT ![image_id] =
                        AddComponent(@, mask, score, "batch_component")]
        edited == IF AnyEdit(e) THEN EditRegion(arr, mask, e) ELSE Ok(arr)
        stored == IF AnyEdit(e)
                  THEN [withComp EXCEPT ![image_id].image = ArrayAfterEdit(arr, mask, e)]
                  ELSE withComp
    IN  IF f.content.tag = "bad"
        THEN [store |-> store, features |-> predFeatures,
              event |-> ItemEvent(f.filename, mode, 0, TRUE, <<>>)]
        ELSE IF center /\ env.set_image_raises
        THEN [store |-> created, features |-> NoFeatures,
              event |-> ItemEvent(f.filename, mode, image_id, TRUE, <<>>)]
        ELSE IF center /\ env.predict_raises
        THEN [store |-> created, features |-> Features(arr),
              event |-> ItemEvent(f.filename, mode, image_id, TRUE, <<>>)]
        ELSE [store |-> stored,
              features |-> IF center THEN Features(arr) ELSE predFeatures,
              event |-> IF edited.ok
                        THEN ItemEvent(f.filename, mode, image_id, FALSE, edited.img)
                        ELSE ItemEvent(f.filename, mode, image_id, TRUE, <<>>)]

\* The request up to the Response: the checks that answer with an error
\* before any event is produced.
BatchBegin ==
    /\ bPc = "request"
    /\ IF Len(bFiles) = 0
       THEN bResp' = 400 /\ bPc' = "rejected" /\ UNCHANGED <<bPos, samLoaded>>
       ELSE IF bMode = "center_point" /\ sam = "unavailable"
       THEN bResp' = 501 /\ bPc' = "rejected" /\ UNCHANGED <<bPos, samLoaded>>
       ELSE IF bMode = "center_point" /\ SamGuardFails
       THEN bResp' = 500 /\ bPc' = "rejected" /\ UNCHANGED <<bPos, samLoaded>>
       ELSE /\ bResp' = 200 /\ bPc' = "streaming" /\ bPos' = 1
            /\ samLoaded' = (samLoaded \/ bMode = "center_point")
    /\ UNCHANGED <<bFiles, bMode, bEdits, bEvents, sessions, assigned, sResp,
                   sam, cache, predFeatures, lastCall, computes, dsTemplates, tpl, cResp,
                   editVars, workerVars, raceVars, saveVars, dsetVars, streamVars, loadVars, migVars>>

\* What one iteration leaves behind, r being what BatchFile made of the
\* file: the session store, the predictor's features.
BatchStore(r) ==
    /\ sessions' = r.store
    /\ assigned' = IF Len(r.store) > Len(sessions)
                   THEN Append(assigned,
                               IF r.store[Len(r.store)].next_component_id > 1
                               THEN <<1>> ELSE <<>>)
                   ELSE assigned
    /\ predFeatures' = r.features

\* An iteration that ends the stream at the first file's error.
BatchYieldUnguarded(r) ==
    /\ BatchStore(r)
    /\ IF r.event.error
       THEN bEvents' = bEvents /\ bPc' = "done" /\ bPos' = bPos
       ELSE bEvents' = Append(bEvents, r.event) /\ bPc' = bPc /\ bPos' = bPos + 1

\* The yield of the iteration: the event of the file, an error event as
\* well as a result.
BatchYield(r) ==
    /\ BatchStore(r)
    /\ bEvents' = Append(bEvents, r.event)

\* The iteration without its except clause: the exception of a failing file
\* leaves the generator, which ends the stream with nothing yielded.
BatchStepUnguarded ==
    /\ bPc = "streaming" /\ bPos <= Len(bFiles)
    /\ \E env \in PredictEnvs :
         BatchYieldUnguarded(BatchFile(bFiles[bPos], bMode, bEdits, env, sessions))
    /\ UNCHANGED <<bFiles, bMode, bEdits, bResp, sResp,
                   sam, samLoaded, cache, lastCall, computes, dsTemplates, tpl, cResp,
                   editVars, workerVars, raceVars, saveVars, dsetVars, streamVars, loadVars, migVars>>

\* An iteration that also runs after the consumer has closed the generator.
BatchStepAfterClose ==
    /\ bPc \in {"streaming", "closed"} /\ bPos <= Len(bFiles)
    /\ \E env \in PredictEnvs :
         BatchYield(BatchFile(bFiles[bPos], bMode, bEdits, env, sessions))
    /\ bPos' = bPos + 1
    /\ UNCHANGED <<bPc, bFiles, bMode, bEdits, bResp, sResp,
                   sam, samLoaded, cache, lastCall, computes, dsTemplates, tpl, cResp,
                   editVars, workerVars, raceVars, saveVars, dsetVars, streamVars, loadVars, migVars>>

\* One iteration of "for f in files" in _gen, up to its yield: what one
\* next() of the consumer runs, the generator being suspended before and
\* after it.
BatchStep ==
    /\ bPc = "streaming" /\ bPos <= Len(bFiles)
    /\ \E env \in PredictEnvs :
         BatchYield(BatchFile(bFiles[bPos], bMode, bEdits, env, sessions))
    /\ bPos' = bPos + 1
    /\ UNCHANGED <<bPc, bFiles, bMode, bEdits, bResp, sResp,
                   sam, samLoaded, cache, lastCall, computes, dsTemplates, tpl, cResp,
                   editVars, workerVars, raceVars, saveVars, dsetVars, streamVars, loadVars, migVars>>

\* The sentinel after the loop: yield 'data: [DONE]'.
BatchFinish ==
    /\ bPc = "streaming" /\ bPos > Len(bFiles)
    /\ bEvents' = Append(bEvents, DoneEvent)
    /\ bPc' = "done"
    /\ UNCHANGED <<bFiles, bMode, bEdits, bPos, bResp, sessVars, cacheVars, editVars, workerVars, raceVars, saveVars, dsetVars, streamVars, loadVars, migVars>>

BatchInit ==
    /\ bPc = "request"
    /\ bFiles \in SeqsUpTo(BatchFiles, MaxFiles)
    /\ bMode \in {"full", "center_point"}
    /\ bEdits \in BatchEdits
    /\ bPos = 0 /\ bEvents = <<>> /\ bResp = 0
    /\ sam \in {"unavailable", "no_checkpoint", "ready"}
    /\ samLoaded = FALSE
    /\ cache = <<>> /\ predFeatures = NoFeatures
    /\ lastCall = NoCall /\ computes = <<>> /\ dsTemplates = <<>>
    /\ tpl = NoTpl /\ cResp = NoResp
    /\ SessIdle /\ EditsIdle /\ WorkerIdle /\ RaceIdle /\ SaveIdle /\ DsetIdle /\ StreamIdle /\ LoadIdle /\ MigIdle

BatchNext == BatchBegin \/ BatchStep \/ BatchFinish

SpecBatch == BatchInit /\ [][BatchNext]_vars

\* ------------------------------------------------- the stream's consumer
\* The consumer closes the generator, which is suspended at a yield (or not
\* yet started): GeneratorExit is raised there, outside the try block, and
\* nothing of _gen runs any more.
BatchClose ==
    /\ bPc = "streaming"
    /\ bPc' = "closed"
    /\ UNCHANGED <<bFiles, bMode, bEdits, bPos, bEvents, bResp, sessVars, cacheVars,
                   editVars, workerVars, raceVars, saveVars, dsetVars, streamVars, loadVars, migVars>>

BatchLazyNext == BatchBegin \/ BatchStep \/ BatchFinish \/ BatchClose

SpecBatchLazy == BatchInit /\ [][BatchLazyNext]_vars

\* C32: bEvents being the events handed to the consumer, a step of the
\* stream handles exactly one file, the next one, and only when the events
\* of all files before it have been handed over; a session is created only
\* by such a step; and once the consumer has closed the stream nothing
\* changes any more: no file is handled, no session is created, and the
\* [DONE] sentinel is not among the events.
C32_LazyAndStopsOnClose ==
    [][/\ (bPc = "streaming" /\ bPos' /= bPos)
            => /\ bPos' = bPos + 1
               /\ Len(bEvents) = bPos - 1 /\ Len(bEvents') = bPos
               /\ Len(sessions') <= Len(sessions) + 1
       /\ sessions' /= sessions => (bPc = "streaming" /\ bPos' = bPos + 1)
       /\ bPc = "closed"
            => UNCHANGED <<bPc, bPos, bEvents, sessions, assigned, predFeatures>>
       /\ bPc' = "closed"
            => \A i \in 1..Len(bEvents') : bEvents'[i] /= DoneEvent]_vars

\* The consumer closed the stream of three files after the first event:
\* one session exists.
C32_Witness ==
    /\ bPc = "closed" /\ Len(bFiles) = 3
    /\ Len(bEvents) = 1 /\ ~bEvents[1].error
    /\ Len(sessions) = 1 /\ bPos = 2

\* ------------------------------------------------- batch in one response
\* One iteration of "for f in files" in sam_batch_process. The checks before
\* the loop are those of BatchBegin, and the body is that of BatchFile; a
\* decode failure and a failure of the model each append an error record,
\* while apply_edits is called outside any try block: its exception ends
\* the request (500) and the results collected so far are dropped. r is
\* what the body did with the file.
BatchProcessRecord(r) ==
    LET added == /\ Len(r.store) > Len(sessions)
                 /\ r.store[Len(r.store)].next_component_id > 1
    IN  /\ sessions' = r.store
        /\ assigned' = IF Len(r.store) > Len(sessions)
                       THEN Append(assigned, IF added THEN <<1>> ELSE <<>>)
                       ELSE assigned
        /\ predFeatures' = r.features
        /\ IF r.event.error /\ added
           THEN bEvents' = <<>> /\ bResp' = 500 /\ bPc' = "failed" /\ bPos' = bPos
           ELSE /\ bEvents' = Append(bEvents, r.event)
                /\ bPos' = bPos + 1
                /\ UNCHANGED <<bPc, bResp>>

BatchProcessStep ==
    /\ bPc = "streaming" /\ bPos <= Len(bFiles)
    /\ \E env \in PredictEnvs :
         BatchProcessRecord(BatchFile(bFiles[bPos], bMode, bEdits, env, sessions))
    /\ UNCHANGED <<bFiles, bMode, bEdits, sResp,
                   sam, samLoaded, cache, lastCall, computes, dsTemplates, tpl, cResp,
                   editVars, workerVars, raceVars, saveVars, dsetVars, streamVars, loadVars, migVars>>

\* return {'results': results, 'count': len(results)}
BatchProcessReturn ==
    /\ bPc = "streaming" /\ bPos > Len(bFiles)
    /\ bPc' = "done"
    /\ UNCHANGED <<bFiles, bMode, bEdits, bPos, bEvents, bResp, sessVars, cacheVars,
                   editVars, workerVars, raceVars, saveVars, dsetVars, streamVars, loadVars, migVars>>

BatchProcessNext == BatchBegin \/ BatchProcessStep \/ BatchProcessReturn

SpecBatchProcess == BatchInit /\ [][BatchProcessNext]_vars

\* C22: once sam_batch_process has entered its loop, a failure on one file
\* never ends the request: the records collected are one per file handled
\* so far, in input order, and the response holds one record per input file.
C22_ErrorsRecordedPerImage ==
    /\ bPc /= "failed"
    /\ bPc = "streaming" =>
          /\ Len(bEvents) = bPos - 1
          /\ \A i \in 1..Len(bEvents) : bEvents[i].filename = bFiles[i].filename
    /\ bPc = "done" =>
          /\ bResp = 200
          /\ Len(bEvents) = Len(bFiles)
          /\ \A i \in 1..Len(bFiles) : bEvents[i].filename = bFiles[i].filename

\* ------------------------------------------- streaming batch: properties
\* Whether the try block of file f fails whatever the model does: the bytes
\* do not decode, or apply_edits raises on the whole image.
MustFail(f, mode, e) ==
    \/ f.content.tag = "bad"
    \/ mode = "full" /\ AnyEdit(e) /\ ~GrayInput(ToFloat(f.content.px))

\* C4: the events yielded by _gen are, in order, one item event per input
\* file carrying that file's name, then one [DONE] sentinel; a file that
\* fails gets an item event with an error, and the generator is never
\* stopped by it: until the sentinel is out, its next yield is enabled.
C4_OneEventPerFileThenDone ==
    /\ Len(bEvents) <= Len(bFiles) + 1
    /\ \A i \in 1..Len(bEvents) :
         IF i <= Len(bFiles)
         THEN /\ bEvents[i].type = "item"
              /\ bEvents[i].filename = bFiles[i].filename
              /\ MustFail(bFiles[i], bMode, bEdits) => bEvents[i].error
              /\ bEvents[i].error = (bEvents[i].variant_png = <<>>)
         ELSE bEvents[i] = DoneEvent
    /\ bPc = "streaming" => Len(bEvents) = bPos - 1 /\ ENABLED (BatchStep \/ BatchFinish)
    /\ bPc = "done" => Len(bEvents) = Len(bFiles) + 1

C4_Witness ==
    /\ bPc = "done" /\ Len(bFiles) = 3
    /\ ~bEvents[1].error /\ bEvents[2].error /\ ~bEvents[3].error
    /\ bEvents[1].filename /= bEvents[3].filename
    /\ bFiles[2].content.tag = "bad"
    /\ bEvents[4] = DoneEvent

\* ------------------------------------------------- requests on a session
\* A click of a /sam/segment request.
SegPoint == [x |-> 0, y |-> 0, positive |-> TRUE]
SegPointNeg == [x |-> 1, y |-> 0, positive |-> FALSE]

\* The points field of the requests.
SegPointLists == {<<>>, <<SegPoint>>, <<SegPointNeg>>, <<SegPoint, SegPointNeg>>}

\* The mask_png values of the save requests: those of MaskPngs, and the
\* raster of a mask one pixel wider than the session's image.
SessMaskPngs ==
    MaskPngs \cup { [tag |-> "png", px |-> [i \in 1..(NPix + 1) |-> 255]] }

\* The edits lists of the /sam/apply requests: no edit, a brightness edit
\* of component 1, a brightness edit of component 2.
SessEditLists ==
    { <<>>,
      <<MkReqEdit(1, <<102, 0, 0>>, <<Absent, Absent>>, Absent)>>,
      <<MkReqEdit(2, <<102, 0, 0>>, <<Absent, Absent>>, Absent)>> }

\* The fields of a /sam/segment request, kept with its response.
SegRequest(sid, points, accumulate, top_k) ==
    [sid |-> sid, points |-> points, accumulate |-> accumulate, top_k |-> top_k]

\* What predictor.predict returns to sam_segment: the lists of CandLists, a
\* list whose second candidate scores higher, and a list of three.
SegCandLists ==
    CandLists \cup
    { << [mask |-> [i \in Pixels |-> i = 1], score |-> 5],
         [mask |-> [i \in Pixels |-> TRUE], score |-> 9] >>,
      << [mask |-> [i \in Pixels |-> i = 1], score |-> 5],
         [mask |-> [i \in Pixels |-> TRUE], score |-> 9],
         [mask |-> [i \in Pixels |-> FALSE], score |-> 5] >> }

\* order = np.argsort(-scores): the index orders argsort can return, every
\* permutation that puts the scores in non-increasing order (the order
\* among equal scores is the sort's own).
SortedOrders(cands) ==
    { p \in [1..Len(cands) -> 1..Len(cands)] :
        /\ \A i, j \in 1..Len(cands) : p[i] = p[j] => i = j
        /\ \A i \in 1..(Len(cands) - 1) : cands[p[i]].score >= cands[p[i + 1]].score }

\* The model's behaviour during one sam_segment call.
SegEnvs ==
    UNION { [set_image_raises : BOOLEAN, predict_raises : BOOLEAN, cands : {c},
             order : SortedOrders(c)] : c \in SegCandLists }

\* top_k = int(payload.get('top_k', 3)) on the values sent.
TopKs == {-1, 0, 1, 2, 3}

\* /sam/segment with the points of the request always replacing the
\* session's list.
SamSegmentReplace(sid, points, accumulate, top_k) ==
    /\ sid \in DOMAIN sessions
         => Len(sessions[sid].points) + Len(points) <= MaxPoints
    /\ IF sam = "unavailable"
       THEN /\ sResp' = [op |-> "segment", status |-> 501, error |-> "SAM not available",
                         req |-> SegRequest(sid, points, accumulate, top_k)]
            /\ UNCHANGED <<sessions, samLoaded, predFeatures>>
       ELSE IF SamGuardFails
       THEN /\ sResp' = [op |-> "segment", status |-> 500,
                         error |-> "SAM model not loaded",
                         req |-> SegRequest(sid, points, accumulate, top_k)]
            /\ UNCHANGED <<sessions, samLoaded, predFeatures>>
       ELSE IF sid \notin DOMAIN sessions
       THEN /\ sResp' = [op |-> "segment", status |-> 400, error |-> "invalid image_id",
                         req |-> SegRequest(sid, points, accumulate, top_k)]
            /\ samLoaded' = TRUE
            /\ UNCHANGED <<sessions, predFeatures>>
       ELSE LET pts == points
            IN  /\ sessions' = [sessions EXCEPT ![sid].points = pts]
                /\ samLoaded' = TRUE
                /\ IF Len(pts) = 0
                   THEN /\ sResp' = [op |-> "segment", status |-> 400,
                                     error |-> "no points provided",
                                     req |-> SegRequest(sid, points, accumulate, top_k)]
                        /\ UNCHANGED predFeatures
                   ELSE \E env \in SegEnvs :
                          IF env.set_image_raises
                          THEN /\ sResp' = [op |-> "segment", status |-> 500,
                                                 error |-> "inference",
                                                 req |-> SegRequest(sid, points, accumulate, top_k)]
                               /\ predFeatures' = NoFeatures
                          ELSE IF env.predict_raises
                          THEN /\ sResp' = [op |-> "segment", status |-> 500,
                                                 error |-> "inference",
                                                 req |-> SegRequest(sid, points, accumulate, top_k)]
                               /\ predFeatures' = Features(sessions[sid].image)
                          ELSE /\ sResp' = [op |-> "segment", status |-> 200,
                                            image_id |-> sid, points |-> pts,
                                            candidates |-> Len(env.cands),
                                            results |-> SegResults(env, top_k),
                                            model |-> env.cands, error |-> "",
                                            req |-> SegRequest(sid, points, accumulate, top_k)]
                               /\ predFeatures' = Features(sessions[sid].image)
    /\ UNCHANGED <<assigned, sam, cache, lastCall, computes, dsTemplates, tpl, cResp,
                   editVars, batchVars, workerVars, raceVars, saveVars, dsetVars, streamVars, loadVars, migVars>>

\* /sam/segment: the model guard, the session lookup, the update of the
\* session's points, the rejection of an empty point list, and the
\* inference (which may raise).
SamSegment(sid, points, accumulate, top_k) ==
    /\ sid \in DOMAIN sessions
         => Len(sessions[sid].points) + Len(points) <= MaxPoints
    /\ IF sam = "unavailable"
       THEN /\ sResp' = [op |-> "segment", status |-> 501, error |-> "SAM not available",
                         req |-> SegRequest(sid, points, accumulate, top_k)]
            /\ UNCHANGED <<sessions, samLoaded, predFeatures>>
       ELSE IF SamGuardFails
       THEN /\ sResp' = [op |-> "segment", status |-> 500,
                         error |-> "SAM model not loaded",
                         req |-> SegRequest(sid, points, accumulate, top_k)]
            /\ UNCHANGED <<sessions, samLoaded, predFeatures>>
       ELSE IF sid \notin DOMAIN sessions
       THEN /\ sResp' = [op |-> "segment", status |-> 400, error |-> "invalid image_id",
                         req |-> SegRequest(sid, points, accumulate, top_k)]
            /\ samLoaded' = TRUE
            /\ UNCHANGED <<sessions, predFeatures>>
       ELSE LET pts == IF accumulate THEN sessions[sid].points \o points ELSE points
            IN  /\ sessions' = [sessions EXCEPT ![sid].points = pts]
                /\ samLoaded' = TRUE
                /\ IF Len(pts) = 0
                   THEN /\ sResp' = [op |-> "segment", status |-> 400,
                                     error |-> "no points provided",
                                     req |-> SegRequest(sid, points, accumulate, top_k)]
                        /\ UNCHANGED predFeatures
                   ELSE \E env \in SegEnvs :
                          IF env.set_image_raises
                          THEN /\ sResp' = [op |-> "segment", status |-> 500,
                                                 error |-> "inference",
                                                 req |-> SegRequest(sid, points, accumulate, top_k)]
                               /\ predFeatures' = NoFeatures
                          ELSE IF env.predict_raises
                          THEN /\ sResp' = [op |-> "segment", status |-> 500,
                                                 error |-> "inference",
                                                 req |-> SegRequest(sid, points, accumulate, top_k)]
                               /\ predFeatures' = Features(sessions[sid].image)
                          ELSE /\ sResp' = [op |-> "segment", status |-> 200,
                                            image_id |-> sid, points |-> pts,
                                            candidates |-> Len(env.cands),
                                            results |-> SegResults(env, top_k),
                                            model |-> env.cands, error |-> "",
                                            req |-> SegRequest(sid, points, accumulate, top_k)]
                               /\ predFeatures' = Features(sessions[sid].image)
    /\ UNCHANGED <<assigned, sam, cache, lastCall, computes, dsTemplates, tpl, cResp,
                   editVars, batchVars, workerVars, raceVars, saveVars, dsetVars, streamVars, loadVars, migVars>>

\* /sam/apply on a session: indexing the image with a mask of another
\* shape raises IndexError in apply_edits, which ends the request.
SessApply(sid, edits) ==
    /\ IF sid \notin DOMAIN sessions
       THEN sResp' = [op |-> "apply", status |-> 400, error |-> "invalid image_id"]
       ELSE LET sess == sessions[sid]
                misfit == \E k \in 1..Len(edits) :
                             /\ edits[k].component_id \in DOMAIN sess.components
                             /\ Len(sess.components[edits[k].component_id].mask)
                                   /= Len(sess.image)
                out == sam_apply(sess, edits)
            IN  IF misfit
                THEN sResp' = [op |-> "apply", status |-> 500, error |-> "IndexError"]
                ELSE IF ~out.ok
                THEN sResp' = [op |-> "apply", status |-> 500, error |-> out.err]
                ELSE sResp' = [op |-> "apply", status |-> 200, image_id |-> sid,
                               variant_png |-> out.img]
    /\ UNCHANGED <<sessions, assigned, editVars, cacheVars, batchVars, workerVars, raceVars,
                   saveVars, dsetVars, streamVars, loadVars, migVars>>

\* One session was created by /sam/init.
SessInit ==
    /\ \E image \in SessImages : sessions = <<NewSession(image)>>
    /\ assigned = <<<<>>>>
    /\ sResp = NoResp
    /\ sam \in {"unavailable", "no_checkpoint", "ready"}
    /\ samLoaded = FALSE
    /\ cache = <<>> /\ predFeatures = NoFeatures
    /\ lastCall = NoCall /\ computes = <<>> /\ dsTemplates = <<>>
    /\ tpl = NoTpl /\ cResp = NoResp
    /\ EditsIdle /\ BatchIdle /\ WorkerIdle /\ RaceIdle /\ SaveIdle /\ DsetIdle /\ StreamIdle /\ LoadIdle /\ MigIdle

SessNext ==
    \/ \E sid \in 0..1, points \in SegPointLists, accumulate \in BOOLEAN :
         SamSegment(sid, points, accumulate, 3)
    \/ \E sid \in 0..1, png \in SessMaskPngs : SamSaveComponent(sid, png)
    \/ \E sid \in 0..1, edits \in SessEditLists : SessApply(sid, edits)

SpecSession == SessInit /\ [][SessNext]_vars

\* /sam/segment requests alone, with every top_k.
SegmentNext ==
    \E sid \in 0..1, points \in {<<>>, <<SegPoint>>}, accumulate \in BOOLEAN, top_k \in TopKs :
        SamSegment(sid, points, accumulate, top_k)

SpecSegment == SessInit /\ [][SegmentNext]_vars

\* The candidates of a successful segment response are candidates of the
\* model, each at most once, have non-increasing scores and the ranks 1, 2,
\* ..., and the first of them has the maximum score of the model's.
RankedFromModel(resp) ==
    LET res == resp.results
        model == resp.model
    IN  /\ \E p \in [DOMAIN res -> DOMAIN model] :
              /\ \A i, j \in DOMAIN res : p[i] = p[j] => i = j
              /\ \A k \in DOMAIN res :
                    /\ res[k].score = model[p[k]].score
                    /\ res[k].mask_png = EncodeMask(model[p[k]].mask)
        /\ \A k \in DOMAIN res : res[k].rank = k
        /\ \A k \in 1..(Len(res) - 1) : res[k].score >= res[k + 1].score
        /\ Len(res) >= 1 => \A j \in DOMAIN model : res[1].score >= model[j].score

\* C33 as stated: a successful sam_segment returns min(top_k, number of
\* model candidates) candidates, ordered by non-increasing score with ranks
\* 1, 2, ..., the first one having the maximum score of all candidates.
C33_TopKRanked ==
    (sResp.op = "segment" /\ sResp.status = 200)
        => /\ Len(sResp.results) = Min2(sResp.req.top_k, Len(sResp.model))
           /\ RankedFromModel(sResp)

\* C33 amended: the number of candidates returned is min(top_k, number of
\* model candidates) when that is not negative and 0 otherwise; they are
\* ordered by non-increasing score with ranks 1, 2, ..., and the first one
\* has the maximum score of all candidates.
C33_TopKRankedOrNone ==
    (sResp.op = "segment" /\ sResp.status = 200)
        => /\ Len(sResp.results)
                = Max2(0, Min2(sResp.req.top_k, Len(sResp.model)))
           /\ RankedFromModel(sResp)

\* Two of three candidates were returned, the model's second one first.
C33_Witness ==
    /\ sResp.op = "segment" /\ sResp.status = 200
    /\ sResp.req.top_k = 2 /\ Len(sResp.model) = 3
    /\ Len(sResp.results) = 2
    /\ sResp.results[1].score = 9 /\ sResp.model[1].score = 5
    /\ sResp.results[2].score = 5

\* ------------------------------------ session requests during a batch
\* The streaming batch creates sessions while segment, save_component and
\* apply requests arrive for the first session, which exists once the
\* batch has created it.
FrameNext ==
    \/ BatchBegin \/ BatchStep \/ BatchFinish
    \/ SamSegment(1, <<SegPoint>>, TRUE, 1)
    \/ SamSaveComponent(1, EncodeMask([i \in Pixels |-> i = 1]))
    \/ \E edits \in SessEditLists : SessApply(1, edits)

\* A batch request of one or two files with the model ready.
FrameInit ==
    /\ bPc = "request"
    /\ bFiles \in SeqsUpTo(BatchFiles, 2) \ {<<>>}
    /\ bMode \in {"full", "center_point"}
    /\ bEdits \in BatchEdits
    /\ bPos = 0 /\ bEvents = <<>> /\ bResp = 0
    /\ sam = "ready"
    /\ samLoaded = FALSE
    /\ cache = <<>> /\ predFeatures = NoFeatures
    /\ lastCall = NoCall /\ computes = <<>> /\ dsTemplates = <<>>
    /\ tpl = NoTpl /\ cResp = NoResp
    /\ SessIdle /\ EditsIdle /\ WorkerIdle /\ RaceIdle /\ SaveIdle /\ DsetIdle /\ StreamIdle /\ LoadIdle /\ MigIdle

SpecFrame == FrameInit /\ [][FrameNext]_vars

\* C35: no step changes the image of an existing session; a session the
\* batch creates holds the decoded image of the file it was created for,
\* also when the batch edits that image; and an apply request leaves the
\* sessions (components, next component ids, point lists) as they were.
C35_SessionImageKept ==
    [][/\ Len(sessions') >= Len(sessions)
       /\ \A sid \in DOMAIN sessions : sessions'[sid].image = sessions[sid].image
       /\ \A sid \in DOMAIN sessions' \ DOMAIN sessions :
             sessions'[sid].image = bFiles[bPos].content.px
       /\ (sResp'.op = "apply" /\ sResp' /= sResp)
             => (sessions' = sessions /\ assigned' = assigned)]_vars

\* An apply request brightened the image of the first session, which the
\* batch had edited as well, and the session still holds the file's image.
C35_Witness ==
    /\ sResp.op = "apply" /\ sResp.status = 200
    /\ Len(sessions) >= 1 /\ bPos >= 2
    /\ bFiles[1].content.tag = "image"
    /\ sessions[1].image = bFiles[1].content.px
    /\ ~bEvents[1].error /\ bEvents[1].variant_png /= sessions[1].image
    /\ sResp.variant_png /= sessions[1].image
    /\ sessions[1].points /= <<>>

\* ------------------------------------- requests on a session: properties
\* C17: a segment or save_component request that is rejected as invalid
\* input (status 400) leaves the sessions as they were: the point lists,
\* the components and the next component ids.
C17_RejectedLeavesState ==
    [][(sResp'.op \in {"segment", "save"} /\ sResp'.status = 400)
         => (sessions' = sessions /\ assigned' = assigned)]_vars

\* C25: a sam_segment call with points P that reaches a session (the model
\* is available and the image_id names the session) whose point list is L
\* leaves the list L followed by P when accumulate is true and exactly P
\* when accumulate is false, in the order given.
C25_PointsAccumulate ==
    [][(/\ sResp'.op = "segment"
        /\ sResp'.req.sid \in DOMAIN sessions
        /\ sResp'.error \notin {"SAM not available", "SAM model not loaded"})
         => sessions'[sResp'.req.sid].points
               = IF sResp'.req.accumulate
                 THEN sessions[sResp'.req.sid].points \o sResp'.req.points
                 ELSE sResp'.req.points]_vars

C25_Witness ==
    /\ sResp.op = "segment" /\ sResp.status = 200
    /\ sResp.req.accumulate /\ sResp.req.points = <<SegPointNeg>>
    /\ sessions[1].points = <<SegPoint, SegPointNeg>>

\* C19: in every session each stored component's mask has the dimensions
\* of the session's image.
C19_MaskDimsMatch ==
    \A sid \in DOMAIN sessions :
        \A cid \in DOMAIN sessions[sid].components :
            Len(sessions[sid].components[cid].mask) = Len(sessions[sid].image)

\* C29: a mask encoded as a raster (true -> 255, false -> 0) and sent to
\* save_component is stored, after the decoding by the threshold > 127, as
\* the very same mask with the same dimensions.
C29_MaskRoundTrip ==
    [][(sResp'.op = "save" /\ sResp'.status = 200)
         => LET png == sResp'.req.mask_png
                stored == sessions'[sResp'.image_id].components[sResp'.component].mask
            IN  \A m \in [1..Len(png.px) -> BOOLEAN] :
                    png = EncodeMask(m) => (stored = m /\ Len(stored) = Len(m))]_vars

\* The mask whose only true pixel is the last one came back from the round
\* trip as it was.
C29_Witness ==
    /\ sResp.op = "save" /\ sResp.status = 200
    /\ sResp.req.mask_png = EncodeMask([i \in Pixels |-> i = NPix])
    /\ sessions[sResp.image_id].components[sResp.component].mask
          = [i \in Pixels |-> i = NPix]

\* The row width np.where reads the mask with.
RowWidth(mask) == IF Len(mask) = NPix THEN ImgW ELSE Len(mask)

\* bbox is [min x, min y, max x, max y] over the true pixels of mask, both
\* ends inclusive, or [0,0,0,0] when there is none; area is their number.
IsBBoxAndArea(bbox, area, mask) ==
    LET on == {i \in DOMAIN mask : mask[i]}
        w == RowWidth(mask)
    IN  /\ area = Cardinality(on)
        /\ IF on = {}
           THEN bbox = <<0, 0, 0, 0>>
           ELSE /\ \A i \in on : /\ bbox[1] <= Xof(i, w) /\ Xof(i, w) <= bbox[3]
                                 /\ bbox[2] <= Yof(i, w) /\ Yof(i, w) <= bbox[4]
                /\ \E i \in on : Xof(i, w) = bbox[1]
                /\ \E i \in on : Xof(i, w) = bbox[3]
                /\ \E i \in on : Yof(i, w) = bbox[2]
                /\ \E i \in on : Yof(i, w) = bbox[4]

\* C30: the bbox and area of every stored component and of every candidate
\* of a segment response are [min x, min y, max x, max y] over the true
\* pixels and their number, [0,0,0,0] and 0 for a mask without a true pixel;
\* a save request with a decodable mask for an existing session is never
\* answered with an error.
C30_BBoxAndArea ==
    /\ \A sid \in DOMAIN sessions :
          \A cid \in DOMAIN sessions[sid].components :
              LET c == sessions[sid].components[cid]
              IN  IsBBoxAndArea(c.bbox, c.area, c.mask)
    /\ (sResp.op = "segment" /\ sResp.status = 200)
          => \A k \in DOMAIN sResp.results :
                 LET r == sResp.results[k]
                 IN  IsBBoxAndArea(r.bbox, r.area, DecodeMask(r.mask_png))
    /\ (/\ sResp.op = "save"
        /\ sResp.req.image_id \in DOMAIN sessions
        /\ sResp.req.mask_png.tag = "png")
          => sResp.status = 200

\* A session holds a component saved from the empty mask and one saved from
\* the mask of the last pixel.
C30_Witness ==
    \E sid \in DOMAIN sessions :
        \E c1, c2 \in DOMAIN sessions[sid].components :
            /\ sessions[sid].components[c1].mask = [i \in Pixels |-> FALSE]
            /\ sessions[sid].components[c1].bbox = <<0, 0, 0, 0>>
            /\ sessions[sid].components[c1].area = 0
            /\ sessions[sid].components[c2].mask = [i \in Pixels |-> i = NPix]
            /\ sessions[sid].components[c2].bbox = <<NPix - 1, 0, NPix - 1, 0>>
            /\ sessions[sid].components[c2].area = 1
            /\ sResp.op = "save" /\ sResp.status = 200

\* ------------------------------------------------- concurrent predictions
\* The request threads of the server (app.run serves each request in its
\* own thread).
Threads == {1, 2}

\* A request that reaches the predictor: the dataset image it works on and
\* the purpose of its cache key ("" for the requests that give no key:
\* sam_segment and the batch endpoints call set_image and predict directly).
RaceRequests == [imgid : {1, 2}, purpose : {"", "preview", "gen"}]

RaceKey(req) == IF req.purpose = "" THEN NoKey ELSE MkKey(req.purpose, req.imgid)

RaceImage(req) == DsImages[req.imgid].image

RaceThread(req) ==
    [pc |-> "check", req |-> req, hit |-> FALSE, loaded |-> NoFeatures,
     stored |-> NoFeatures, used |-> NoFeatures, status |-> "running"]

\* if cache_key and cache_key in _EMBEDDING_CACHE:
\*     predictor.features = _EMBEDDING_CACHE[cache_key]
RaceCheck(t) ==
    /\ rT[t].pc = "check"
    /\ LET key == RaceKey(rT[t].req)
       IN  IF key /= NoKey /\ key \in DOMAIN cache
           THEN /\ predFeatures' = cache[key]
                /\ rT' = [rT EXCEPT ![t].pc = "predict", ![t].hit = TRUE,
                                    ![t].loaded = cache[key]]
           ELSE /\ rT' = [rT EXCEPT ![t].pc = "set_image"]
                /\ UNCHANGED predFeatures
    /\ UNCHANGED <<rSet, cache, sam, samLoaded, lastCall, computes, dsTemplates, tpl, cResp,
                   editVars, sessVars, batchVars, workerVars, saveVars, dsetVars, streamVars, loadVars, migVars>>

\* predictor.set_image(arr), first part: the predictor drops the image it
\* holds (features None, is_image_set False) before it runs the encoder.
RaceReset(t) ==
    /\ rT[t].pc = "set_image"
    /\ predFeatures' = NoFeatures
    /\ rSet' = FALSE
    /\ rT' = [rT EXCEPT ![t].pc = "encode"]
    /\ UNCHANGED <<cache, sam, samLoaded, lastCall, computes, dsTemplates, tpl, cResp,
                   editVars, sessVars, batchVars, workerVars, saveVars, dsetVars, streamVars, loadVars, migVars>>

\* predictor.set_image(arr), second part: the features of arr are assigned.
RaceEncode(t) ==
    /\ rT[t].pc = "encode"
    /\ predFeatures' = Features(RaceImage(rT[t].req))
    /\ rSet' = TRUE
    /\ rT' = [rT EXCEPT ![t].pc = "store", ![t].loaded = Features(RaceImage(rT[t].req))]
    /\ UNCHANGED <<cache, sam, samLoaded, lastCall, computes, dsTemplates, tpl, cResp,
                   editVars, sessVars, batchVars, workerVars, saveVars, dsetVars, streamVars, loadVars, migVars>>

\* if cache_key: _EMBEDDING_CACHE[cache_key] = predictor.features
RaceStore(t) ==
    /\ rT[t].pc = "store"
    /\ cache' = CacheStore(cache, RaceKey(rT[t].req), predFeatures)
    /\ rT' = [rT EXCEPT ![t].pc = "predict",
                        ![t].stored = IF RaceKey(rT[t].req) /= NoKey THEN predFeatures
                                      ELSE NoFeatures]
    /\ UNCHANGED <<rSet, predFeatures, sam, samLoaded, lastCall, computes, dsTemplates, tpl,
                   cResp, editVars, sessVars, batchVars, workerVars, saveVars, dsetVars, streamVars, loadVars, migVars>>

\* predictor.predict(...): it raises when no image is set, and runs on the
\* features the predictor holds otherwise.
RacePredict(t) ==
    /\ rT[t].pc = "predict"
    /\ rT' = [rT EXCEPT ![t].pc = "done",
                        ![t].status = IF rSet /\ predFeatures /= NoFeatures THEN "ok"
                                      ELSE "raised",
                        ![t].used = predFeatures]
    /\ UNCHANGED <<rSet, predFeatures, cache, sam, samLoaded, lastCall, computes,
                   dsTemplates, tpl, cResp, editVars, sessVars, batchVars, workerVars, saveVars, dsetVars, streamVars, loadVars, migVars>>

\* Two requests arrive at a loaded model with an empty cache.
RaceInit ==
    /\ rT \in [Threads -> {RaceThread(req) : req \in RaceRequests}]
    /\ rSet = FALSE
    /\ sam = "ready" /\ samLoaded = TRUE
    /\ cache = <<>> /\ predFeatures = NoFeatures
    /\ lastCall = NoCall /\ computes = <<>> /\ dsTemplates = <<>>
    /\ tpl = NoTpl /\ cResp = NoResp
    /\ SessIdle /\ EditsIdle /\ BatchIdle /\ WorkerIdle /\ SaveIdle /\ DsetIdle /\ StreamIdle /\ LoadIdle /\ MigIdle

RaceNext ==
    \E t \in Threads :
        RaceCheck(t) \/ RaceReset(t) \/ RaceEncode(t) \/ RaceStore(t) \/ RacePredict(t)

SpecRace == RaceInit /\ [][RaceNext]_vars

\* ------------------------------------ concurrent predictions: properties
\* C14: when the two requests have the same cache key and the same image,
\* each finished call ran its prediction on the features of that image, and
\* once a call has stored under the key the cache holds those features.
C14_ConcurrentSameKey ==
    (/\ RaceKey(rT[1].req) = RaceKey(rT[2].req)
     /\ RaceKey(rT[1].req) /= NoKey)
    => /\ \A t \in Threads :
            rT[t].pc = "done"
            => rT[t].status = "ok" /\ rT[t].used = Features(RaceImage(rT[t].req))
       /\ RaceKey(rT[1].req) \in DOMAIN cache
            => cache[RaceKey(rT[1].req)] = Features(RaceImage(rT[1].req))

\* A thread is inside its inference: from the start of set_image, or from
\* the load of cached features, to the end of predict.
InFlight(t) == rT[t].pc \in {"encode", "store", "predict"}

\* C15: at most one inference is in flight; between a request's set_image
\* or cached-feature load and its predict step the predictor holds the
\* features that request put there; and the features a request stored in
\* the cache are those of its image.
C15_PredictorSerialized ==
    /\ \A t, u \in Threads : (InFlight(t) /\ InFlight(u)) => t = u
    /\ \A t \in Threads :
          rT[t].pc \in {"store", "predict"} => predFeatures = rT[t].loaded
    /\ \A t \in Threads :
          (rT[t].pc \in {"predict", "done"} /\ ~rT[t].hit /\ RaceKey(rT[t].req) /= NoKey)
          => rT[t].stored = Features(RaceImage(rT[t].req))

\* --------------------------------------------------- concurrent saves
\* A /sam/save_component request on session 1 about to call _add_component.
SaveThread(mask) == [pc |-> "start", mask |-> mask, comp_id |-> 0, tmp |-> 0]

\* _get_session: with _SESSION_LOCK: ...
SaveAcquire(t) ==
    /\ aT[t].pc = "start" /\ sLock = 0
    /\ sLock' = t
    /\ aT' = [aT EXCEPT ![t].pc = "locked"]
    /\ UNCHANGED <<sessVars, editVars, cacheVars, batchVars, workerVars, raceVars, dsetVars, streamVars, loadVars, migVars>>

\* _get_session: return _SESSIONS.get(image_id), which releases the lock.
SaveGetSession(t) ==
    /\ aT[t].pc = "locked" /\ sLock = t
    /\ sLock' = 0
    /\ aT' = [aT EXCEPT ![t].pc = "read_id"]
    /\ UNCHANGED <<sessVars, editVars, cacheVars, batchVars, workerVars, raceVars, dsetVars, streamVars, loadVars, migVars>>

\* comp_id = sess['next_component_id']
SaveReadId(t) ==
    /\ aT[t].pc = "read_id"
    /\ aT' = [aT EXCEPT ![t].pc = "load", ![t].comp_id = sessions[1].next_component_id]
    /\ UNCHANGED <<sLock, sessVars, editVars, cacheVars, batchVars, workerVars, raceVars, dsetVars, streamVars, loadVars, migVars>>

\* sess['next_component_id'] += 1, the read of the item.
SaveLoadNext(t) ==
    /\ aT[t].pc = "load"
    /\ aT' = [aT EXCEPT ![t].pc = "store", ![t].tmp = sessions[1].next_component_id]
    /\ UNCHANGED <<sLock, sessVars, editVars, cacheVars, batchVars, workerVars, raceVars, dsetVars, streamVars, loadVars, migVars>>

\* sess['next_component_id'] += 1, the write of the item.
SaveStoreNext(t) ==
    /\ aT[t].pc = "store"
    /\ sessions' = [sessions EXCEPT ![1].next_component_id = aT[t].tmp + 1]
    /\ aT' = [aT EXCEPT ![t].pc = "put"]
    /\ UNCHANGED <<sLock, assigned, sResp, editVars, cacheVars, batchVars, workerVars,
                   raceVars, dsetVars, streamVars, loadVars, migVars>>

\* sess['components'][comp_id] = comp; return comp
SavePut(t) ==
    /\ aT[t].pc = "put"
    /\ sessions' = [sessions EXCEPT ![1].components =
                        Put(@, aT[t].comp_id, MkComponent(aT[t].comp_id, aT[t].mask, 0, ""))]
    /\ assigned' = [assigned EXCEPT ![1] = Append(@, aT[t].comp_id)]
    /\ aT' = [aT EXCEPT ![t].pc = "done"]
    /\ UNCHANGED <<sLock, sResp, editVars, cacheVars, batchVars, workerVars, raceVars, dsetVars, streamVars, loadVars, migVars>>

\* Two save requests arrive for one session, fresh or with one component.
SaveInit ==
    /\ aT \in [Threads -> {SaveThread(m) : m \in SaveMasks}]
    /\ sLock = 0
    /\ \E image \in SessImages :
         sessions \in { <<NewSession(image)>>,
                        <<AddComponent(NewSession(image), [i \in Pixels |-> TRUE], 0, "")>> }
    /\ assigned = <<[k \in 1..(sessions[1].next_component_id - 1) |-> k]>>
    /\ sResp = NoResp
    /\ EditsIdle /\ CacheIdle /\ BatchIdle /\ WorkerIdle /\ RaceIdle /\ DsetIdle /\ StreamIdle /\ LoadIdle /\ MigIdle

SaveNext ==
    \E t \in Threads :
        \/ SaveAcquire(t) \/ SaveGetSession(t) \/ SaveReadId(t)
        \/ SaveLoadNext(t) \/ SaveStoreNext(t) \/ SavePut(t)

SpecSave == SaveInit /\ [][SaveNext]_vars

\* ------------------------------------------- concurrent saves: properties
\* C16: when both concurrent save_component calls have returned, their
\* components have different ids, both are in the session's component map,
\* and next_component_id has advanced by exactly two.
C16_ConcurrentSaves ==
    (\A t \in Threads : aT[t].pc = "done")
    => /\ aT[1].comp_id /= aT[2].comp_id
       /\ \A t \in Threads : aT[t].comp_id \in DOMAIN sessions[1].components
       /\ sessions[1].next_component_id = Len(assigned[1]) + 1

\* ------------------------------------------------- the session lock
\* Requests that touch the session map while other requests run: /sam/init
\* with an image, and /sam/segment with one point on session sid.
LockRequests ==
    { [kind |-> "init", image |-> image, sid |-> 0] : image \in SessImages }
        \cup { [kind |-> "segment", image |-> <<>>, sid |-> sid] : sid \in 1..MaxSessions }

\* A request thread at the start of its handler.
LockThread(req) == [pc |-> "start", req |-> req, found |-> FALSE, status |-> 0]

\* sam_init: data = file.read(); img = Image.open(...).convert('RGB');
\* arr = np.array(img), before _session_init is called.
LockDecode(t) ==
    /\ aT[t].pc = "start" /\ aT[t].req.kind = "init"
    /\ aT' = [aT EXCEPT ![t].pc = "enter"]
    /\ UNCHANGED <<sLock, sessVars, editVars, cacheVars, batchVars, workerVars, raceVars, dsetVars, streamVars, loadVars, migVars>>

\* with _SESSION_LOCK: the thread waits until the lock is free and takes it
\* (in _session_init for /sam/init, in _get_session for /sam/segment).
LockEnter(t) ==
    /\ \/ aT[t].pc = "enter"
       \/ aT[t].pc = "start" /\ aT[t].req.kind = "segment"
    /\ sLock = 0
    /\ sLock' = t
    /\ aT' = [aT EXCEPT ![t].pc = "locked"]
    /\ UNCHANGED <<sessVars, editVars, cacheVars, batchVars, workerVars, raceVars, dsetVars, streamVars, loadVars, migVars>>

\* _session_init: _SESSIONS[image_id] = {...} under the lock, which the end
\* of the with block releases; sam_init then returns the id.
LockInsert(t) ==
    /\ aT[t].pc = "locked" /\ aT[t].req.kind = "init" /\ sLock = t
    /\ Len(sessions) < MaxSessions
    /\ sessions' = Append(sessions, NewSession(aT[t].req.image))
    /\ assigned' = Append(assigned, <<>>)
    /\ sLock' = 0
    /\ aT' = [aT EXCEPT ![t].pc = "done", ![t].status = 200]
    /\ UNCHANGED <<sResp, editVars, cacheVars, batchVars, workerVars, raceVars, dsetVars, streamVars, loadVars, migVars>>

\* A lookup that keeps the lock after returning the session.
LockLookupHeld(t) ==
    /\ aT[t].pc = "locked" /\ aT[t].req.kind = "segment" /\ sLock = t
    /\ IF aT[t].req.sid \in DOMAIN sessions
       THEN aT' = [aT EXCEPT ![t].pc = "set_image", ![t].found = TRUE]
       ELSE aT' = [aT EXCEPT ![t].pc = "done", ![t].status = 400]
    /\ UNCHANGED <<sLock, sessVars, editVars, cacheVars, batchVars, workerVars, raceVars, dsetVars, streamVars, loadVars, migVars>>

\* _get_session: return _SESSIONS.get(image_id) under the lock, which the
\* end of the with block releases; sam_segment answers 400 without session.
LockLookup(t) ==
    /\ aT[t].pc = "locked" /\ aT[t].req.kind = "segment" /\ sLock = t
    /\ sLock' = 0
    /\ IF aT[t].req.sid \in DOMAIN sessions
       THEN aT' = [aT EXCEPT ![t].pc = "set_image", ![t].found = TRUE]
       ELSE aT' = [aT EXCEPT ![t].pc = "done", ![t].status = 400]
    /\ UNCHANGED <<sessVars, editVars, cacheVars, batchVars, workerVars, raceVars, dsetVars, streamVars, loadVars, migVars>>

\* sam_segment: sess['points'].extend(points); predictor.set_image(img).
LockSetImage(t) ==
    /\ aT[t].pc = "set_image"
    /\ Len(sessions[aT[t].req.sid].points) < MaxPoints
    /\ sessions' = [sessions EXCEPT ![aT[t].req.sid].points = Append(@, SegPoint)]
    /\ aT' = [aT EXCEPT ![t].pc = "predict"]
    /\ UNCHANGED <<sLock, assigned, sResp, editVars, cacheVars, batchVars, workerVars,
                   raceVars, dsetVars, streamVars, loadVars, migVars>>

\* sam_segment: predictor.predict(...).
LockPredict(t) ==
    /\ aT[t].pc = "predict"
    /\ aT' = [aT EXCEPT ![t].pc = "encode"]
    /\ UNCHANGED <<sLock, sessVars, editVars, cacheVars, batchVars, workerVars, raceVars, dsetVars, streamVars, loadVars, migVars>>

\* sam_segment: the candidates' masks are encoded as PNG and returned.
LockEncode(t) ==
    /\ aT[t].pc = "encode"
    /\ aT' = [aT EXCEPT ![t].pc = "done", ![t].status = 200]
    /\ UNCHANGED <<sLock, sessVars, editVars, cacheVars, batchVars, workerVars, raceVars, dsetVars, streamVars, loadVars, migVars>>

\* Two requests arrive while one session exists.
LockInit ==
    /\ aT \in [Threads -> {LockThread(req) : req \in LockRequests}]
    /\ sLock = 0
    /\ \E image \in SessImages : sessions = <<NewSession(image)>>
    /\ assigned = <<<<>>>>
    /\ sResp = NoResp
    /\ EditsIdle /\ CacheIdle /\ BatchIdle /\ WorkerIdle /\ RaceIdle /\ DsetIdle /\ StreamIdle /\ LoadIdle /\ MigIdle

LockNext ==
    \E t \in Threads :
        \/ LockDecode(t) \/ LockEnter(t) \/ LockInsert(t) \/ LockLookup(t)
        \/ LockSetImage(t) \/ LockPredict(t) \/ LockEncode(t)

SpecLock == LockInit /\ [][LockNext]_vars

\* ---------------------------------------------- the session lock: properties
\* A thread decoding an image, running set_image or predict, or encoding.
LockBusy(t) == aT[t].pc \in {"start", "enter", "set_image", "predict", "encode"}

\* C31: _SESSION_LOCK is held only inside the insert of _session_init and
\* the lookup of _get_session: no thread holds it while it decodes, runs
\* set_image or predict, or encodes, so whenever a request is in inference
\* and no other request is inside its insert or lookup the lock is free
\* for a lookup of another session.
C31_LockOnlyAroundMap ==
    /\ \A t \in Threads : sLock = t <=> aT[t].pc = "locked"
    /\ \A t \in Threads : LockBusy(t) => sLock /= t
    /\ \A t, u \in Threads :
          (aT[t].pc \in {"set_image", "predict"} /\ aT[u].pc = "start"
              /\ aT[u].req.kind = "segment")
          => ENABLED LockEnter(u)

\* One request is between set_image and predict on session 1 while the
\* other, a segment request on another session, holds the lock for its
\* lookup.
C31_Witness ==
    \E t, u \in Threads :
        /\ aT[t].pc = "predict" /\ aT[t].req.sid = 1
        /\ aT[u].pc = "locked" /\ aT[u].req.kind = "segment" /\ aT[u].req.sid = 2
        /\ sLock = u

\* ----------------------------------------------------------- dataset init
\* The entries of an uploaded archive: a name and the bytes.
ZipEntries ==
    { [filename |-> "z.png",
       content |-> [tag |-> "image", px |-> [i \in Pixels |-> <<128, 128, 128>>]]],
      [filename |-> "z.png", content |-> [tag |-> "bad"]],
      [filename |-> "notes.txt", content |-> [tag |-> "bad"]] }

\* The zip field of the form: missing, bytes that are no archive, or an
\* archive with its entries.
ZipFields ==
    { [tag |-> "absent"], [tag |-> "corrupt"] }
        \cup { [tag |-> "zip", entries |-> q] : q \in SeqsUpTo(ZipEntries, 1) }

\* name.lower().endswith(('.png', ...)) on the names that occur.
HasImageExtension(name) == name \in {"a.png", "b.png", "z.png"}

\* The entries of q that satisfy Keep(_), in order.
RECURSIVE ZipCollected(_)
ZipCollected(q) ==
    IF q = <<>> THEN <<>>
    ELSE IF HasImageExtension(Head(q).filename)
         THEN <<Head(q)>> \o ZipCollected(Tail(q))
         ELSE ZipCollected(Tail(q))

\* collected: the archive entries written to the dataset directory, then
\* the uploaded files saved there.
Collected(zip, files) ==
    (IF zip.tag = "zip" THEN ZipCollected(zip.entries) ELSE <<>>) \o files

\* The bytes at path name once everything is written: those of the last
\* item saved under the name.
OnDisk(collected, name) ==
    LET last == CHOOSE k \in 1..Len(collected) :
                    /\ collected[k].filename = name
                    /\ \A j \in (k + 1)..Len(collected) : collected[j].filename /= name
    IN  collected[last].content

\* images_meta: for p in collected, an entry when Image.open(p) succeeds;
\* the id is a fresh uuid, here the entry's position.
RECURSIVE ImagesMeta(_, _, _)
ImagesMeta(collected, k, acc) ==
    IF k > Len(collected) THEN acc
    ELSE LET bytes == OnDisk(collected, collected[k].filename)
         IN  ImagesMeta(collected, k + 1,
                 IF bytes.tag = "image"
                 THEN Append(acc, [id |-> Len(acc) + 1, filename |-> collected[k].filename,
                                   image |-> bytes.px])
                 ELSE acc)

\* /sam/dataset/init.
DatasetInit ==
    /\ dPc = "request"
    /\ dPc' = "answered"
    /\ IF Len(dFiles) = 0 /\ dZip.tag = "absent"
       THEN /\ dResp' = [op |-> "dataset_init", status |-> 400]
            /\ UNCHANGED datasets
       ELSE IF dZip.tag = "corrupt"
       THEN /\ dResp' = [op |-> "dataset_init", status |-> 400]
            /\ UNCHANGED datasets
       ELSE LET images_meta == ImagesMeta(Collected(dZip, dFiles), 1, <<>>)
            IN  /\ datasets' = Append(datasets, [images |-> images_meta, templates |-> <<>>])
                /\ dResp' = [op |-> "dataset_init", status |-> 200,
                             dataset_id |-> Len(datasets) + 1, images |-> images_meta]
    /\ UNCHANGED <<dFiles, dZip, editVars, sessVars, cacheVars, batchVars, workerVars,
                   raceVars, saveVars, streamVars, loadVars, migVars>>

DsetInit ==
    /\ dPc = "request"
    /\ dFiles \in SeqsUpTo(BatchFiles, MaxFiles)
    /\ dZip \in ZipFields
    /\ datasets = <<>>
    /\ dResp = NoResp
    /\ SessIdle /\ EditsIdle /\ CacheIdle /\ BatchIdle /\ WorkerIdle /\ RaceIdle /\ SaveIdle
    /\ StreamIdle /\ LoadIdle /\ MigIdle

DsetNext == DatasetInit

SpecDataset == DsetInit /\ [][DsetNext]_vars

\* ---------------------------------------------------------- template save
\* A point of a template/save request: the keys x_norm and y_norm may be
\* missing (Absent) or hold a value float() rejects (None); positive may be
\* missing.
TplPoint(x, y, positive) == [x_norm |-> x, y_norm |-> y, positive |-> positive]

\* The points fields of the requests: none, a point without y_norm, a
\* valid point followed by one whose x_norm is null, a valid point followed
\* by one without y_norm, and two valid points.
TplPointLists ==
    { <<>>,
      <<TplPoint(Num(50), Absent, Absent)>>,
      <<TplPoint(Num(50), Num(50), Absent), TplPoint(None, Num(50), Absent)>>,
      <<TplPoint(Num(50), Num(50), Absent), TplPoint(Num(50), Absent, Absent)>>,
      <<TplPoint(Num(25), Num(75), Num(0)), TplPoint(Num(50), Num(50), Absent)>> }

\* 'x_norm' in p and 'y_norm' in p
HasBothKeys(pt) == pt.x_norm /= Absent /\ pt.y_norm /= Absent

\* float(p['x_norm']), float(p['y_norm']) raise for a value that is no number.
FloatRaises(pt) == pt.x_norm.tag /= "num" \/ pt.y_norm.tag /= "num"

\* {'x_norm': float(..), 'y_norm': float(..), 'positive': bool(p.get('positive', True))}
NormPoint(pt) ==
    [x_norm |-> pt.x_norm.val, y_norm |-> pt.y_norm.val,
     positive |-> IF pt.positive = Absent THEN TRUE ELSE pt.positive.val /= 0]

\* The loop without its test of the keys: a point without a coordinate is
\* kept with the coordinate 0.
RECURSIVE NormPointsUnfiltered(_)
NormPointsUnfiltered(pts) ==
    IF pts = <<>> THEN Ok(<<>>)
    ELSE LET pt == Head(pts)
             rest == NormPointsUnfiltered(Tail(pts))
             filled == [pt EXCEPT !.x_norm = IF @ = Absent THEN Num(0) ELSE @,
                                  !.y_norm = IF @ = Absent THEN Num(0) ELSE @]
         IN  IF FloatRaises(filled) THEN Raised("TypeError")
             ELSE IF ~rest.ok THEN rest
             ELSE Ok(<<NormPoint(filled)>> \o rest.img)

\* norm: the points that have both keys, converted, in request order; or
\* the exception of a conversion.
RECURSIVE NormPoints(_)
NormPoints(pts) ==
    IF pts = <<>> THEN Ok(<<>>)
    ELSE LET pt == Head(pts)
             rest == NormPoints(Tail(pts))
         IN  IF ~HasBothKeys(pt) THEN rest
             ELSE IF FloatRaises(pt) THEN Raised("TypeError")
             ELSE IF ~rest.ok THEN rest
             ELSE Ok(<<NormPoint(pt)>> \o rest.img)

TemplateRequest(dsid, pts, class) == [dataset_id |-> dsid, points |-> pts, class |-> class]

\* /sam/dataset/template/save. The new id (a uuid) is the next unused number.
DatasetTemplateSave(dsid, pts, class) ==
    /\ dsid \in DOMAIN datasets => Len(datasets[dsid].templates) < MaxTemplates
    /\ LET req == TemplateRequest(dsid, pts, class)
           norm == NormPoints(pts)
       IN  IF dsid \notin DOMAIN datasets
           THEN /\ dResp' = [op |-> "template_save", status |-> 404, req |-> req]
                /\ UNCHANGED datasets
           ELSE IF pts = <<>>
           THEN /\ dResp' = [op |-> "template_save", status |-> 400, req |-> req]
                /\ UNCHANGED datasets
           ELSE IF ~norm.ok
           THEN /\ dResp' = [op |-> "template_save", status |-> 500, req |-> req]
                /\ UNCHANGED datasets
           ELSE IF norm.img = <<>>
           THEN /\ dResp' = [op |-> "template_save", status |-> 400, req |-> req]
                /\ UNCHANGED datasets
           ELSE LET tid == Len(datasets[dsid].templates) + 1
                IN  /\ datasets' = [datasets EXCEPT ![dsid].templates =
                                       Append(@, [id |-> tid, class |-> class,
                                                  points |-> norm.img])]
                    /\ dResp' = [op |-> "template_save", status |-> 200, req |-> req,
                                 template_id |-> tid, count |-> Len(norm.img)]
    /\ UNCHANGED <<dPc, dFiles, dZip, editVars, sessVars, cacheVars, batchVars, workerVars,
                   raceVars, saveVars, streamVars, loadVars, migVars>>

\* Two datasets were registered by /sam/dataset/init.
TemplatesInit ==
    /\ dPc = "answered" /\ dFiles = <<>> /\ dZip = [tag |-> "absent"]
    /\ datasets = <<[images |-> <<>>, templates |-> <<>>],
                    [images |-> <<>>, templates |-> <<>>]>>
    /\ dResp = NoResp
    /\ SessIdle /\ EditsIdle /\ CacheIdle /\ BatchIdle /\ WorkerIdle /\ RaceIdle /\ SaveIdle
    /\ StreamIdle /\ LoadIdle /\ MigIdle

TemplatesNext ==
    \E dsid \in 0..2, pts \in TplPointLists, class \in {"", "pass"} :
        DatasetTemplateSave(dsid, pts, class)

SpecTemplates == TemplatesInit /\ [][TemplatesNext]_vars

\* ------------------------------------------------ dataset init: properties
\* The files and archive entries supplied with the request, and those of
\* them whose bytes are a decodable image.
Supplied == (IF dZip.tag = "zip" THEN dZip.entries ELSE <<>>) \o dFiles

RECURSIVE Decodable(_)
Decodable(q) ==
    IF q = <<>> THEN <<>>
    ELSE IF Head(q).content.tag = "image"
         THEN <<Head(q)>> \o Decodable(Tail(q))
         ELSE Decodable(Tail(q))

\* The points of a request that have both coordinates, as they are stored.
RECURSIVE ValidPoints(_)
ValidPoints(pts) ==
    IF pts = <<>> THEN <<>>
    ELSE (IF Head(pts).x_norm.tag = "num" /\ Head(pts).y_norm.tag = "num"
          THEN <<[x_norm |-> Head(pts).x_norm.val, y_norm |-> Head(pts).y_norm.val,
                  positive |-> Head(pts).positive \in {Absent, Num(1)}]>>
          ELSE <<>>) \o ValidPoints(Tail(pts))

\* C26: a template/save request that succeeds names an existing dataset and
\* has at least one point with both x_norm and y_norm; it adds exactly one
\* template, under an id no template of the dataset has, holding the valid
\* points only, and changes no other template or dataset. A request that
\* does not succeed answers an error and leaves every template map as it
\* was.
C26_TemplateSave ==
    [][dResp'.op = "template_save" =>
         LET req == dResp'.req
         IN  IF dResp'.status = 200
             THEN /\ req.dataset_id \in DOMAIN datasets
                  /\ ValidPoints(req.points) /= <<>>
                  /\ LET old == datasets[req.dataset_id].templates
                         new == datasets'[req.dataset_id].templates
                     IN  /\ Len(new) = Len(old) + 1
                         /\ SubSeq(new, 1, Len(old)) = old
                         /\ \A k \in 1..Len(old) : old[k].id /= new[Len(new)].id
                         /\ new[Len(new)].id = dResp'.template_id
                         /\ new[Len(new)].points = ValidPoints(req.points)
                         /\ new[Len(new)].class = req.class
                  /\ \A d \in DOMAIN datasets :
                        d /= req.dataset_id => datasets'[d] = datasets[d]
             ELSE /\ dResp'.status \in {400, 404, 500}
                  /\ datasets' = datasets]_vars

C26_Witness ==
    /\ dResp.op = "template_save" /\ dResp.status = 200
    /\ Len(dResp.req.points) = 2 /\ dResp.count = 1
    /\ Len(datasets[dResp.req.dataset_id].templates) = 2

\* C18: dataset_init fails and registers no dataset exactly when none of
\* the supplied files or archive entries is decodable; when it succeeds the
\* dataset's images are exactly the decodable ones, in order, each with an
\* id of its own.
C18_FailsIffNoneDecodable ==
    dPc = "answered" =>
        LET good == Decodable(Supplied)
        IN  /\ (dResp.status /= 200 /\ datasets = <<>>) <=> (good = <<>>)
            /\ dResp.status = 200 =>
                 /\ Len(datasets) = 1
                 /\ Len(datasets[1].images) = Len(good)
                 /\ \A k \in 1..Len(good) :
                      /\ datasets[1].images[k].filename = good[k].filename
                      /\ datasets[1].images[k].image = good[k].content.px
                 /\ \A j, k \in 1..Len(good) :
                      datasets[1].images[j].id = datasets[1].images[k].id => j = k

\* ------------------------------------------------------- database migration
MaxRuns == 3

NewColumns == {"content_hash", "embedding_cached"}

\* The databases a run can start from: no images table (and then none of
\* its columns), or the table with any of the new columns; the index on
\* content_hash exists only where the column does. DDL statements are part
\* of the transaction on some backends and take effect at once on others.
Databases ==
    { db \in [table : BOOLEAN, cols : SUBSET NewColumns, idx : BOOLEAN,
              transactional : BOOLEAN] :
        /\ ~db.table => db.cols = {}
        /\ db.idx => "content_hash" \in db.cols }

\* check_columns_exist: (has_content_hash, has_embedding_cached).
check_columns_exist(db) ==
    <<"content_hash" \in db.cols, "embedding_cached" \in db.cols>>

AddContentHash == [op |-> "add_column", name |-> "content_hash"]
CreateIndex == [op |-> "create_index", name |-> "idx_images_content_hash"]
AddEmbeddingCached == [op |-> "add_column", name |-> "embedding_cached"]

\* The conn.execute calls of a block that does not look at what exists.
StatementsUnguarded(has) == <<AddContentHash, CreateIndex, AddEmbeddingCached>>

\* The conn.execute calls of the "with _ENGINE.begin()" block, in order:
\* those under "if not has_content_hash", then the one under
\* "if not has_embedding_cached".
Statements(has) ==
    (IF ~has[1] THEN <<AddContentHash, CreateIndex>> ELSE <<>>)
      \o (IF ~has[2] THEN <<AddEmbeddingCached>> ELSE <<>>)

\* Whether the database refuses the statement: a column or an index of
\* that name exists already.
Duplicate(db, st) ==
    IF st.op = "add_column" THEN st.name \in db.cols ELSE db.idx

\* The database after the statement.
Executed(db, st) ==
    IF st.op = "add_column" THEN [db EXCEPT !.cols = @ \cup {st.name}]
    ELSE [db EXCEPT !.idx = TRUE]

\* The record of a finished run.
RunRecord(before, after, log, outcome, error) ==
    [before |-> before, after |-> after, log |-> log, outcome |-> outcome, error |-> error]

\* The script is started.
MigCall ==
    /\ mPc \in {"idle", "finished"} /\ Len(mHist) < MaxRuns
    /\ mPc' = "called"
    /\ mSnap' = mDb /\ mLog' = <<>> /\ mTodo' = <<>>
    /\ UNCHANGED <<mDb, mHist,
                   editVars, sessVars, cacheVars, batchVars, workerVars, raceVars, saveVars, dsetVars, streamVars, loadVars>>

\* migrate_database up to the transaction: the check, init_db when the
\* inspection raised (there is no images table; create_all makes the tables
\* of py.db, whose Image has neither of the new columns), the early return
\* when both columns exist.
MigCheck ==
    /\ mPc = "called"
    /\ IF ~mDb.table
       THEN /\ mDb' = [mDb EXCEPT !.table = TRUE]
            /\ mHist' = Append(mHist, RunRecord(mSnap, mDb', mLog, "initialized", ""))
            /\ mPc' = "finished" /\ mTodo' = <<>>
       ELSE LET has == check_columns_exist(mDb)
            IN  IF has[1] /\ has[2]
                THEN /\ mHist' = Append(mHist, RunRecord(mSnap, mDb, mLog, "up_to_date", ""))
                     /\ mPc' = "finished" /\ mTodo' = <<>>
                     /\ UNCHANGED mDb
                ELSE /\ mTodo' = Statements(has)
                     /\ mPc' = "migrating"
                     /\ UNCHANGED <<mDb, mHist>>
    /\ UNCHANGED <<mSnap, mLog,
                   editVars, sessVars, cacheVars, batchVars, workerVars, raceVars, saveVars, dsetVars, streamVars, loadVars>>

\* What the database holds after the block was left by an exception: the
\* state before the block where DDL is rolled back, else what the
\* statements executed so far made of it.
RolledBack(db, snap) == IF db.transactional THEN snap ELSE db

\* One conn.execute of the block (db_ok: the database carries it out; it
\* does not when the name exists already, or for a reason of its own), or
\* the commit at the end of the block.
MigExecute ==
    /\ mPc = "migrating"
    /\ IF mTodo = <<>>
       THEN /\ mHist' = Append(mHist, RunRecord(mSnap, mDb, mLog, "migrated", ""))
            /\ mPc' = "finished"
            /\ UNCHANGED <<mDb, mTodo, mLog>>
       ELSE \E db_ok \in BOOLEAN :
              LET st == Head(mTodo)
              IN  IF Duplicate(mDb, st) \/ ~db_ok
                  THEN /\ mDb' = RolledBack(mDb, mSnap)
                       /\ mHist' = Append(mHist,
                                          RunRecord(mSnap, mDb', mLog, "failed",
                                                    IF Duplicate(mDb, st) THEN "duplicate" ELSE "database"))
                       /\ mPc' = "finished"
                       /\ UNCHANGED <<mTodo, mLog>>
                  ELSE /\ mDb' = Executed(mDb, st)
                       /\ mLog' = Append(mLog, st)
                       /\ mTodo' = Tail(mTodo)
                       /\ UNCHANGED <<mPc, mHist>>
    /\ UNCHANGED <<mSnap,
                   editVars, sessVars, cacheVars, batchVars, workerVars, raceVars, saveVars, dsetVars, streamVars, loadVars>>

MigInit ==
    /\ mPc = "idle"
    /\ mDb \in Databases
    /\ mTodo = <<>> /\ mSnap = NoDb /\ mLog = <<>> /\ mHist = <<>>
    /\ SessIdle /\ EditsIdle /\ CacheIdle /\ BatchIdle /\ WorkerIdle /\ RaceIdle /\ SaveIdle
    /\ DsetIdle /\ StreamIdle /\ LoadIdle

MigNext == MigCall \/ MigCheck \/ MigExecute

SpecMigrate == MigInit /\ [][MigNext]_vars

\* The columns the statements of a run added.
AddedColumns(log) ==
    {log[k].name : k \in {j \in 1..Len(log) : log[j].op = "add_column"}}

\* C39: a run of migrate_database on a database whose images table exists,
\* with any of the four combinations of the two columns, does not fail on
\* what exists already; when it ends (no failure of the database itself)
\* both columns are present, the columns it added are exactly those that
\* were missing, and the run that follows it executes no statement and
\* leaves the database as it was.
C39_MigrateIdempotent ==
    \A i \in 1..Len(mHist) :
        LET h == mHist[i]
        IN  h.before.table =>
              /\ h.error /= "duplicate"
              /\ h.outcome \in {"migrated", "up_to_date"} =>
                   /\ h.after.cols = NewColumns
                   /\ AddedColumns(h.log) = NewColumns \ h.before.cols
                   /\ h.after.cols = h.before.cols \cup AddedColumns(h.log)
                   /\ i < Len(mHist) =>
                        /\ mHist[i + 1].outcome = "up_to_date"
                        /\ mHist[i + 1].log = <<>>
                        /\ mHist[i + 1].after = mHist[i + 1].before
                        /\ mHist[i + 1].before = h.after

\* A first run that added one missing column, and a second run after it.
C39_Witness ==
    /\ Len(mHist) = 2
    /\ mHist[1].before.table /\ mHist[1].before.cols = {"content_hash"}
    /\ mHist[1].outcome = "migrated" /\ mHist[1].log = <<AddEmbeddingCached>>
    /\ mHist[2].outcome = "up_to_date"

\* ------------------------------------------------------------------ worker
\* The images of a job's dataset, as dataset_init registers them.
JobImages(n) == [i \in 1..n |-> [id |-> i, filename |-> [stem |-> "img", n |-> i]]]

\* An event of the apply stream as the JSON object it is sent as: the keys
\* it has, and the values the worker reads.
OkEvent(idx, total, im) ==
    [keys |-> {"index", "total", "filename", "image_id", "variant_png", "ms"},
     index |-> idx, filename |-> im.filename]

ErrorEvent(idx, total, im) ==
    [keys |-> {"index", "total", "filename", "image_id", "error"},
     index |-> idx, filename |-> im.filename]

CompletionEvent == [keys |-> {"done"}]

\* dataset_apply_stream._stream: one event per image, a success or (when
\* the try block raised) an error, then the completion event.
ApplyStream(images, failed) ==
    [i \in 1..Len(images) |->
        IF i \in failed THEN ErrorEvent(i - 1, Len(images), images[i])
        ELSE OkEvent(i - 1, Len(images), images[i])]
      \o <<CompletionEvent>>

\* The lines resp.iter_lines() yields for f'data: {json}\n\n' per event:
\* the data line and an empty line.
RECURSIVE StreamLines(_)
StreamLines(events) ==
    IF events = <<>> THEN <<>>
    ELSE <<[data |-> TRUE, event |-> Head(events)], [data |-> FALSE]>>
           \o StreamLines(Tail(events))

\* The body of a JSON error answer ({'error': 'no_templates'}, 400): one
\* line that does not start with "data:".
JsonErrorLines == <<[data |-> FALSE]>>

\* What the worker can get from its apply_stream request: the whole stream
\* or a JSON error answer, or any prefix of the stream when the connection
\* ends early.
Responses(job) ==
    LET n == Len(job.images)
        streams == { StreamLines(ApplyStream(job.images, failed)) : failed \in SUBSET (1..n) }
    IN  {JsonErrorLines}
          \cup (IF job.templates = 0 THEN {}
                ELSE { SubSeq(st, 1, cut) : st \in streams, cut \in 0..(2 * (n + 1)) })

JobStatus(status, progress, error) ==
    [status |-> status, progress |-> progress, error |-> error]

\* update_job: the status record of the job is written, or update_item
\* raises and nothing is written.
DdbOutcomes == BOOLEAN

\* "except Exception as e: update_job(failed); return" without the return:
\* the loop is left and handle_job goes on to its last write.
ExceptFailedNoReturn(error) ==
    \E ddb_ok \in DdbOutcomes :
        IF ddb_ok
        THEN /\ wStatus' = Append(wStatus, JobStatus("failed", wProcessed, error))
             /\ wPc' = "streaming" /\ wNext' = Len(wLines) + 1
        ELSE /\ wStatus' = wStatus /\ wPc' = "raised" /\ wNext' = wNext

\* "except Exception as e: update_job(failed); return": the write of the
\* failed status, after which handle_job returns; when the write raises,
\* handle_job raises.
ExceptFailed(error) ==
    \E ddb_ok \in DdbOutcomes :
        IF ddb_ok
        THEN /\ wStatus' = Append(wStatus, JobStatus("failed", wProcessed, error))
             /\ wPc' = "returned" /\ wNext' = wNext
        ELSE /\ wStatus' = wStatus /\ wPc' = "raised" /\ wNext' = wNext

\* handle_job up to the apply_stream request: the listing of the dataset,
\* /sam/dataset/init (init: it answered 200, answered something else, or
\* the listing or the request raised), the template saves. The two
\* update_job calls here are outside any try block.
WorkerStart ==
    /\ wPc = "received"
    /\ \E init \in {"ok", "rejected", "raise"}, ddb_ok \in DdbOutcomes :
         IF init = "raise"
         THEN /\ wPc' = "raised" /\ UNCHANGED <<wStatus, wNext>>
         ELSE IF Len(wJob.images) = 0 \/ init = "rejected"
         THEN IF ddb_ok
              THEN /\ wStatus' = Append(wStatus,
                                        JobStatus("failed", 0,
                                                  IF Len(wJob.images) = 0 THEN "no images" ELSE "init"))
                   /\ wPc' = "returned" /\ wNext' = wNext
              ELSE /\ wPc' = "raised" /\ UNCHANGED <<wStatus, wNext>>
         ELSE /\ wPc' = "streaming" /\ wNext' = 1
              /\ UNCHANGED wStatus
    /\ UNCHANGED <<wJob, wLines, wEnd, wS3Ok, wProcessed, wUploads, wDeleted, wRun, wFirst,
                   editVars, sessVars, cacheVars, batchVars, raceVars, saveVars, dsetVars, streamVars, loadVars, migVars>>

\* The key of s3.upload_file: f"{output_prefix}{fn}". Neither the number
\* of the run nor anything else of the run is part of it.
UploadKeyPerRun(job, fn, run) == [prefix |-> "out/", fn |-> fn, run |-> run]

UploadKey(job, fn, run) == [prefix |-> "out/", fn |-> fn]

\* One iteration of "for line in resp.iter_lines()".
WorkerLine ==
    /\ wPc = "streaming" /\ wNext <= Len(wLines)
    /\ LET line == wLines[wNext]
       IN  IF ~line.data
           THEN /\ wNext' = wNext + 1
                /\ UNCHANGED <<wPc, wProcessed, wStatus, wUploads>>
           ELSE IF "filename" \notin line.event.keys \/ "variant_png" \notin line.event.keys
           THEN /\ ExceptFailed("KeyError")
                /\ UNCHANGED <<wProcessed, wUploads>>
           ELSE IF ~wS3Ok
           THEN /\ ExceptFailed("upload")
                /\ UNCHANGED <<wProcessed, wUploads>>
           ELSE /\ wUploads' = Append(wUploads, UploadKey(wJob, line.event.filename, wRun))
                /\ wProcessed' = wProcessed + 1
                /\ \/ /\ wStatus' = Append(wStatus, JobStatus("processing", wProcessed + 1, ""))
                      /\ wNext' = wNext + 1
                      /\ UNCHANGED wPc
                   \/ ExceptFailed("update_item")
    /\ UNCHANGED <<wJob, wLines, wEnd, wS3Ok, wDeleted, wRun, wFirst,
                   editVars, sessVars, cacheVars, batchVars, raceVars, saveVars, dsetVars, streamVars, loadVars, migVars>>

\* The end of the response: iter_lines raises, or the loop ends and
\* handle_job writes the final status (a write outside the try block).
WorkerEnd ==
    /\ wPc = "streaming" /\ wNext > Len(wLines)
    /\ IF wEnd = "raise"
       THEN ExceptFailed("connection")
       ELSE \E ddb_ok \in DdbOutcomes :
              IF ddb_ok
              THEN /\ wStatus' = Append(wStatus, JobStatus("succeeded", wProcessed, ""))
                   /\ wPc' = "returned" /\ wNext' = wNext
              ELSE /\ wPc' = "raised" /\ UNCHANGED <<wStatus, wNext>>
    /\ UNCHANGED <<wJob, wLines, wEnd, wS3Ok, wProcessed, wUploads, wDeleted, wRun, wFirst,
                   editVars, sessVars, cacheVars, batchVars, raceVars, saveVars, dsetVars, streamVars, loadVars, migVars>>

WorkerInit ==
    /\ wPc = "received"
    /\ wJob \in [images : {JobImages(n) : n \in 0..MaxImages}, templates : 0..1]
    /\ wLines \in Responses(wJob)
    /\ wEnd \in {"eof", "raise"}
    /\ wS3Ok \in BOOLEAN
    /\ wNext = 0 /\ wProcessed = 0 /\ wStatus = <<>> /\ wUploads = <<>>
    /\ wDeleted = FALSE
    /\ wRun = 1 /\ wFirst = <<>>
    /\ SessIdle /\ EditsIdle /\ CacheIdle /\ BatchIdle /\ RaceIdle /\ SaveIdle /\ DsetIdle /\ StreamIdle /\ LoadIdle /\ MigIdle

WorkerNext == WorkerStart \/ WorkerLine \/ WorkerEnd

SpecWorker == WorkerInit /\ [][WorkerNext]_vars

\* handle_job is called for the job's message a second time, with a new
\* work directory; what the backend and S3 do in this run is open.
SecondRun ==
    /\ wRun' = 2 /\ wFirst' = wUploads
    /\ wPc' = "received"
    /\ wLines' \in Responses(wJob)
    /\ wEnd' \in {"eof", "raise"}
    /\ wS3Ok' \in BOOLEAN
    /\ wNext' = 0 /\ wProcessed' = 0 /\ wUploads' = <<>> /\ wDeleted' = FALSE
    /\ UNCHANGED <<wJob, wStatus,
                   editVars, sessVars, cacheVars, batchVars, raceVars, saveVars, dsetVars, streamVars, loadVars, migVars>>

\* The job's message is received a second time (at-least-once delivery)
\* after handle_job returned or raised.
WorkerRedeliver ==
    /\ wPc \in {"returned", "raised"} /\ wRun = 1
    /\ SecondRun

RedeliverNext == WorkerStart \/ WorkerLine \/ WorkerEnd \/ WorkerRedeliver

SpecRedeliver == WorkerInit /\ [][RedeliverNext]_vars

\* main, after handle_job(m) returned: sqs.delete_message, which deletes
\* the message or raises into the except clause; then the next receive.
MainDelete ==
    /\ wPc = "returned"
    /\ wDeleted' \in BOOLEAN
    /\ wPc' = "receive"
    /\ UNCHANGED <<wJob, wLines, wEnd, wS3Ok, wNext, wProcessed, wStatus, wUploads, wRun, wFirst,
                   editVars, sessVars, cacheVars, batchVars, raceVars, saveVars, dsetVars, streamVars, loadVars, migVars>>

\* An except clause that deletes the message of the job that failed.
MainExceptDeletes ==
    /\ wPc = "raised"
    /\ wPc' = "receive" /\ wDeleted' = TRUE
    /\ UNCHANGED <<wJob, wLines, wEnd, wS3Ok, wNext, wProcessed, wStatus, wUploads, wRun, wFirst,
                   editVars, sessVars, cacheVars, batchVars, raceVars, saveVars, dsetVars, streamVars, loadVars, migVars>>

\* main, when handle_job(m) raised: "except Exception as e: print(...)",
\* then the next receive.
MainExcept ==
    /\ wPc = "raised"
    /\ wPc' = "receive"
    /\ UNCHANGED <<wJob, wLines, wEnd, wS3Ok, wNext, wProcessed, wStatus, wUploads, wDeleted, wRun, wFirst,
                   editVars, sessVars, cacheVars, batchVars, raceVars, saveVars, dsetVars, streamVars, loadVars, migVars>>

\* sqs.receive_message of the next turn of the loop: a message that was not
\* deleted becomes visible again and is received.
MainReceive ==
    /\ wPc = "receive" /\ ~wDeleted /\ wRun = 1
    /\ SecondRun

MainNext ==
    WorkerStart \/ WorkerLine \/ WorkerEnd \/ MainDelete \/ MainExcept \/ MainReceive

SpecMain == WorkerInit /\ [][MainNext]_vars

\* ------------------------------------------------------ worker: properties
\* The worker made its apply_stream request, the response is the whole
\* stream with a success event for every image, and the uploads work.
FullSuccessStream ==
    /\ Len(wJob.images) >= 1 /\ wNext > 0
    /\ wLines = StreamLines(ApplyStream(wJob.images, {}))
    /\ wEnd = "eof" /\ wS3Ok

\* The completion event is among the lines the worker was given.
DoneReceived ==
    \E i \in 1..Len(wLines) :
        /\ i < wNext \/ (i = wNext /\ wPc = "returned")
        /\ wLines[i].data /\ wLines[i].event = CompletionEvent

\* C5: when the apply stream delivers a success event for every image and
\* then the completion event, handle_job never writes the status failed, and
\* it returns with every result uploaded and the last status succeeded.
C5_FullStreamSucceeds ==
    FullSuccessStream
    => /\ \A i \in 1..Len(wStatus) : wStatus[i].status /= "failed"
       /\ wPc = "returned"
            => /\ wStatus[Len(wStatus)].status = "succeeded"
               /\ wUploads = [i \in 1..Len(wJob.images) |->
                                 UploadKey(wJob, wJob.images[i].filename, wRun)]

\* C21: the keys a second run of handle_job for the same job uploads are
\* keys output_prefix + filename of the job's images, the same key per image
\* as in the first run; a second run that uploads as many results as the
\* first uploads the same keys, and after a first run that uploaded every
\* image's result the second run adds no new key.
C21_RerunSameKeys ==
    wRun = 2 =>
        /\ \A i \in 1..Len(wUploads) :
              /\ \E k \in 1..Len(wJob.images) :
                    wUploads[i] = [prefix |-> "out/", fn |-> wJob.images[k].filename]
              /\ \A j \in 1..Len(wFirst) :
                    wUploads[i].fn = wFirst[j].fn => wUploads[i] = wFirst[j]
        /\ Len(wUploads) = Len(wFirst) => wUploads = wFirst
        /\ Len(wFirst) = Len(wJob.images)
              => {wUploads[i] : i \in 1..Len(wUploads)} \subseteq {wFirst[j] : j \in 1..Len(wFirst)}

C21_Witness ==
    /\ wRun = 2 /\ wPc = "returned"
    /\ Len(wJob.images) = MaxImages
    /\ Len(wFirst) = MaxImages /\ wUploads = wFirst

\* C6: when the apply stream ends before the completion event was received,
\* the final status of the job is failed.
C6_MissingDoneFails ==
    (/\ wPc = "returned" /\ wNext > 0
     /\ Len(wLines) > 0 /\ wLines[1].data
     /\ ~DoneReceived)
    => wStatus[Len(wStatus)].status = "failed"

\* C36: within one handle_job run the status writes are zero or more
\* processing writes with progress 1, 2, 3, ..., each after the upload it
\* counts, then at most one terminal write (succeeded or failed), which is
\* the last write of the run: nothing is written after it, and succeeded
\* and failed are never both written.
C36_StatusWritesOrdered ==
    /\ \A i \in 1..Len(wStatus) :
          IF wStatus[i].status = "processing"
          THEN /\ wStatus[i].progress = i
               /\ i <= Len(wUploads)
          ELSE /\ wStatus[i].status \in {"succeeded", "failed"}
               /\ i = Len(wStatus)
               /\ wPc = "returned"
    /\ wPc = "returned" => /\ Len(wStatus) >= 1
                           /\ wStatus[Len(wStatus)].status \in {"succeeded", "failed"}

C36_Witness ==
    /\ wPc = "returned" /\ Len(wStatus) = 3
    /\ wStatus[1].status = "processing" /\ wStatus[2].status = "processing"
    /\ wStatus[3].status = "failed"

\* C37: when handle_job has written the status succeeded, at least one
\* result was uploaded in that run and an output was uploaded for every
\* image of the job's dataset; in particular a run whose apply request was
\* answered with an error, or whose response held no item event, does not
\* end in succeeded.
C37_SucceededMeansAllUploaded ==
    (/\ wPc = "returned"
     /\ wStatus[Len(wStatus)].status = "succeeded")
    => /\ Len(wUploads) >= 1
       /\ \A k \in 1..Len(wJob.images) :
             \E i \in 1..Len(wUploads) : wUploads[i].fn = wJob.images[k].filename

\* C38: in the worker loop the message of a job is deleted only by the
\* step that follows the return of handle_job for it; when handle_job
\* raised, the message is not deleted and the loop goes on to its next
\* receive; a message is never deleted while its job is still to be handled
\* or being handled.
C38_DeleteOnlyAfterReturn ==
    [][/\ (wDeleted' /\ ~wDeleted) => wPc = "returned"
       /\ wPc = "raised" => (~wDeleted' /\ wPc' = "receive")
       /\ wDeleted' => wPc' = "receive"]_vars

\* The first handle_job raised before it wrote any status (a return follows
\* a status write), and the loop received the message again.
C38_Witness ==
    /\ wRun = 2 /\ wPc = "received"
    /\ wStatus = <<>> /\ ~wDeleted

\* ---------------------------------------------- embedding cache: properties
\* C2: calls of _predict_sam_mask with the same cache key compute the image
\* features (set_image) at most once in total: the computing call stores
\* them under the key, every later call with the key is a hit that computes
\* nothing, and the key stays in the cache.
C2_ComputeOnce ==
    /\ \A k \in DOMAIN computes : computes[k] <= 1 /\ k \in DOMAIN cache
    /\ \A k \in DOMAIN cache : k \in DOMAIN computes
    /\ lastCall.hit => lastCall.computed = 0 /\ lastCall.key \in DOMAIN cache
    /\ (lastCall.stage = "predict" /\ lastCall.key /= NoKey)
         => lastCall.key \in DOMAIN cache

C2_Witness ==
    /\ lastCall.hit /\ lastCall.key = DirectKey(1)
    /\ lastCall.img = DsImages[1].image
    /\ computes[lastCall.key] = 1
    /\ cache[lastCall.key] = Features(lastCall.img)

\* The elements of a sequence.
Range(q) == {q[i] : i \in DOMAIN q}

\* Whether the class tag of template t admits the image: the tag is empty
\* or it is the class inferred from the file name.
ClassAdmits(t, imgid) ==
    t.class = "" \/ t.class = ImageClass(DsImages[imgid].filename)

\* C11: of the templates the loop has passed, those applied are exactly the
\* ones whose class tag is empty or equals the class inferred for the image
\* (among the templates the request's edits name); a call that skipped
\* every template returns the input image and an empty union mask.
C11_ClassFilter ==
    /\ tpl.active =>
         \A j \in 1..(tpl.k - 1) :
            LET t == dsTemplates[j]
                named == tpl.edits = <<>> \/ t.id \in DOMAIN tpl.edits
            IN  /\ t.id \in Range(tpl.appliedIds) => ClassAdmits(t, tpl.imgid)
                /\ (ClassAdmits(t, tpl.imgid) /\ named) => t.id \in Range(tpl.appliedIds)
    /\ (cResp.op \in {"gen", "template_preview"} /\ cResp.status = 200
          /\ cResp.appliedIds = <<>>)
         => /\ cResp.img = DsImages[cResp.imgid].image
            /\ \A i \in Pixels : ~cResp.mask[i]

\* The edit values the loop uses for template id tid.
EditValsOf(edits, tid) ==
    IF tid \in DOMAIN edits THEN edits[tid]
    ELSE MkReqEdit(tid, <<0, 0, 0>>, <<Absent, Absent>>, Absent)

\* C12: templates are applied in the order they were saved, and each
\* applied template is segmented and edited on the image the templates
\* applied before it produced: the prediction is given that image and runs
\* on its features, and the output so far is its edit of that image.
C12_CumulativeOrder ==
    (tpl.active /\ tpl.applied >= 1) =>
        LET n == Len(tpl.appliedIds)
            last == tpl.appliedIds[n]
        IN  /\ \A a, b \in 1..n : a < b =>
                  \E i, j \in 1..Len(dsTemplates) :
                      /\ i < j /\ j < tpl.k
                      /\ dsTemplates[i].id = tpl.appliedIds[a]
                      /\ dsTemplates[j].id = tpl.appliedIds[b]
            /\ n = 1 => tpl.prev = DsImages[tpl.imgid].image
            /\ lastCall.img = tpl.prev
            /\ lastCall.used = Features(tpl.prev)
            /\ tpl.out = EditRegion(tpl.prev, tpl.lastMask, EditValsOf(tpl.edits, last)).img

\* C13: a call of _predict_sam_mask never raises: it ends with a mask or
\* with (None, None), and when it ends without a mask it has stored nothing
\* in the embedding cache.
C13_NeverRaises ==
    cResp.op = "predict" =>
        /\ cResp.status \in {"ok", "none"}
        /\ cResp.status = "none" => lastCall.computed = 0

\* C27: a _predict_sam_mask call that returns a mask returns the candidate
\* of highest score with its score, and among candidates of equal highest
\* score the one of lowest index.
C27_BestCandidateFirstOnTies ==
    (cResp.op = "predict" /\ cResp.status = "ok")
    => \E i \in 1..Len(cResp.cands) :
          /\ \A j \in 1..Len(cResp.cands) : cResp.cands[j].score <= cResp.cands[i].score
          /\ \A j \in 1..(i - 1) : cResp.cands[j].score < cResp.cands[i].score
          /\ cResp.mask = cResp.cands[i].mask
          /\ cResp.score = cResp.cands[i].score

\* C20: a generate (apply stream) prediction on a dataset image whose
\* features a preview of the same image has already put in the cache is a
\* cache hit and computes no features.
C20_PreviewThenGenerateHits ==
    (/\ lastCall.stage = "predict"
     /\ lastCall.key = GenKey(lastCall.key.id)
     /\ \/ PreviewKey(lastCall.key.id) \in DOMAIN cache
        \/ TemplatePreviewKey(lastCall.key.id) \in DOMAIN cache)
        => (lastCall.hit /\ lastCall.computed = 0)

\* C3: whenever _predict_sam_mask runs the predict step, the features it
\* uses are those of the image array given to that call.
C3_FeaturesMatchImage ==
    lastCall.stage = "predict" => lastCall.used = Features(lastCall.img)

\* ------------------------------------------------ compositor: properties
IdentityReq == MkReqEdit(1, <<0, 0, 0>>, <<Absent, Absent>>, Num(100))

\* What the documented order gives for pixel i of a single edited region:
\* brightness, contrast, gamma, then hue/saturation in the HSV space of that
\* result (skipped for a grayscale input), then the 8-bit quantization.
StagedPixel(img, e, i) ==
    LET toned == [c \in 1..3 |-> ToneStages(ToFloat(img)[i][c], e)]
        col == IF GrayInput(ToFloat(img)) THEN toned
               ELSE Hsv2RgbPix(HueSatPix(Rgb2HsvPix(toned), e))
    IN  [c \in 1..3 |-> Quantize(col[c])]

\* C7: in apply_edits the hue/saturation stage works on the result of the
\* brightness, contrast and gamma stages: for a single edit without
\* sharpen and noise, every pixel of the edited region is the staged pixel.
C7_StagesCompose ==
    (/\ ePc = "applied" /\ eKind = "apply_edits"
     /\ Len(eEdits) = 1 /\ eOut.ok
     /\ eEdits[1].sharpen = 0 /\ eEdits[1].noise = 0)
    => \A i \in Pixels : eObj[i] => eOut.img[i] = StagedPixel(eImg, eEdits[1], i)

\* C8: a /sam/apply request with the identity edit (all zero, no hue, no
\* saturation, opacity 1) completes without error and returns the input.
C8_IdentityEdit ==
    (ePc = "applied" /\ eKind = "sam_apply" /\ eEdits = <<IdentityReq>>)
    => eOut = Ok(eImg)

\* The entries of a request's edits whose component_id names a saved
\* component of the session.
KnownEdits(sess, edits) ==
    SelectSeq(edits, LAMBDA e : e.component_id \in DOMAIN sess.components)

\* C24: sam_apply answers a request holding edit entries for component ids
\* without a saved component exactly as it answers the request without
\* these entries: they raise nothing and change no pixel, and a request of
\* such entries only returns the session image.
C24_UnknownComponentSkipped ==
    (ePc = "applied" /\ eKind = "sam_apply")
    => /\ eOut = sam_apply(CallSession, KnownEdits(CallSession, eEdits))
       /\ KnownEdits(CallSession, eEdits) = <<>> => eOut = Ok(eImg)

C24_Witness ==
    /\ ePc = "applied" /\ eKind = "sam_apply"
    /\ Len(eEdits) = 2 /\ Len(KnownEdits(CallSession, eEdits)) = 1
    /\ eEdits[1].component_id = 2
    /\ eOut.ok /\ eOut.img /= eImg

\* C9: apply_edits with an empty edits list, and sam_apply with an empty
\* edits list, return the input image unchanged.
C9_EmptyEditsNoOp ==
    (ePc = "applied" /\ eEdits = <<>>) => eOut = Ok(eImg)

C9_Witness ==
    /\ ePc = "applied" /\ eEdits = <<>> /\ eKind = "sam_apply"
    /\ ~GrayInput(ToFloat(eImg))
    /\ \E i \in Pixels : eObj[i]

\* C10: every pixel outside the edited region mask keeps its input value in
\* the output of apply_edits, of sam_apply, and of the opacity blend.
C10_OutsideUnchanged ==
    /\ (ePc \in {"applied", "blended"} /\ eOut.ok)
         => \A i \in Pixels : ~eObj[i] => eOut.img[i] = eImg[i]
    /\ ePc = "blended"
         => \A i \in Pixels : ~eObj[i] => eBlend.img[i] = eImg[i]

C10_Witness ==
    /\ ePc = "blended" /\ eBlend.opacity = Num(50)
    /\ \E i \in Pixels : ~eObj[i]
    /\ \E i \in Pixels : eObj[i] /\ eBlend.img[i] /= eImg[i] /\ eBlend.img[i] /= eOut.img[i]

====
